---- MODULE Spec2Model ----
(***************************************************************************)
(* Model of the stock-portfolio-analyzer aggregation engine                *)
(* (src/src/lib/portfolio-calculator.ts) and of its CSV trade validator    *)
(* (csv-parser, src/unnamed/part_002).                                     *)
(*                                                                         *)
(* Numbers: a JavaScript number is modelled as an exact rational           *)
(* [n |-> numerator, d |-> denominator > 0] in lowest terms, so the        *)
(* divisions of the cost-basis walk are computed, not approximated.        *)
(* IEEE-754 rounding is not modelled.                                      *)
(* Dates: a normalised date string YYYY-MM-DD is modelled by its day       *)
(* index (a natural number); both new Date(s).getTime() and the            *)
(* lexicographic order of the strings are monotone in that index.          *)
(***************************************************************************)
EXTENDS Integers, Sequences, FiniteSets, TLC

(* ------------------------------ bounds --------------------------------- *)
MaxTrades == 3
MaxRows == 3
MaxHoldings == 3
MaxUpload == 2
MaxCalls == 3
MaxClock == 4
Delay == 2

(* ----------------------- exact rational numbers ------------------------ *)
Abs(x) == IF x < 0 THEN -x ELSE x

RECURSIVE GCD(_, _)
GCD(a, b) == IF b = 0 THEN a ELSE GCD(b, a % b)

Rat(n, d) ==
  LET s == IF d < 0 THEN -1 ELSE 1
      g == GCD(Abs(n), Abs(d))
  IN  [n |-> (s * n) \div g, d |-> (s * d) \div g]

R(i) == [n |-> i, d |-> 1]
RAdd(x, y) == Rat(x.n * y.d + y.n * x.d, x.d * y.d)
RSub(x, y) == Rat(x.n * y.d - y.n * x.d, x.d * y.d)
RMul(x, y) == Rat(x.n * y.n, x.d * y.d)
RDiv(x, y) == Rat(x.n * y.d, x.d * y.n)
RLt(x, y) == x.n * y.d < y.n * x.d
RLe(x, y) == x.n * y.d <= y.n * x.d
RMax(x, y) == IF RLt(x, y) THEN y ELSE x
Zero == R(0)

(* ------------------------- the lookup tables --------------------------- *)
Symbols == {"AAPL", "ZZZ"}
\* 2024-01-01 and 2024-02-01
Dates == {1, 2}
\* the lots traded: a buy of 1 at 150, a buy of 2 at 100 and a sell of 2 at
\* 160, so that a symbol can be sold partly (2 of 3), exactly (2 of 2) and
\* beyond what is held (2 of 1 or of 0)
Lots == {[shares |-> 1, price |-> 150],
         [shares |-> 2, price |-> 100],
         [shares |-> -2, price |-> 160]}

\* MOCK_CURRENT_PRICES: the price table, a function on the mapped symbols
MOCK_CURRENT_PRICES == [s \in {"AAPL"} |-> R(175)]

\* SECTOR_MAPPING, with its 'default' entry
SECTOR_MAPPING == [s \in {"AAPL", "default"} |->
                     IF s = "AAPL" THEN "Technology" ELSE "Other"]

\* mutant of DefaultMarkup: an unpriced symbol is valued at cost
DefaultMarkup_AtCost == Rat(1, 1)

\* the 1.05 of the price fallback
DefaultMarkup == Rat(105, 100)

Hundred == R(100)

(* ------------------------------ trades --------------------------------- *)
\* the valid trades the engine is exercised with
Trade ==
  { [symbol |-> s, shares |-> l.shares, price |-> l.price, date |-> d] :
      s \in Symbols, l \in Lots, d \in Dates }

\* new Date(date).getTime(), milliseconds of the day's UTC midnight
getTime(date) == date * 86400000

\* Array.prototype.sort with the comparator a.date - b.date (stable)
RECURSIVE InsertByDate(_, _)
InsertByDate(sorted, t) ==
  IF sorted = <<>> THEN <<t>>
  ELSE LET last == sorted[Len(sorted)]
       IN  IF getTime(last.date) - getTime(t.date) <= 0
           THEN Append(sorted, t)
           ELSE Append(InsertByDate(SubSeq(sorted, 1, Len(sorted) - 1), t), last)

RECURSIVE SortByDate(_)
SortByDate(s) ==
  IF s = <<>> THEN <<>>
  ELSE InsertByDate(SortByDate(SubSeq(s, 1, Len(s) - 1)), s[Len(s)])

\* mutant of SymbolKeys: one key per trade, the symbols are not merged
SymbolKeys_PerTrade(s) == [i \in DOMAIN s |-> s[i].symbol]

\* Object.entries(tradesBySymbol): the symbols in first-insertion order
\* (the symbols of the model are not integer-like keys)
RECURSIVE SymbolKeys(_)
SymbolKeys(s) ==
  IF s = <<>> THEN <<>>
  ELSE LET init == SymbolKeys(SubSeq(s, 1, Len(s) - 1))
           k == s[Len(s)].symbol
       IN  IF \E i \in 1..Len(init) : init[i] = k THEN init ELSE Append(init, k)

\* tradesBySymbol[symbol]
tradesBySymbol(trs, symbol) == SelectSeq(trs, LAMBDA t : t.symbol = symbol)

(* ----------------------- calculateHoldings ----------------------------- *)
\* mutant of WalkStep: the sold cost is not floored at 0
WalkStep_NoFloor(acc, trade) ==
  LET tradeValue == RMul(R(Abs(trade.shares)), R(trade.price))
  IN  IF trade.shares > 0
      THEN [totalShares |-> acc.totalShares + trade.shares,
            totalCost |-> RAdd(acc.totalCost, tradeValue)]
      ELSE LET currentAvgCost == IF acc.totalShares > 0
                                 THEN RDiv(acc.totalCost, R(acc.totalShares))
                                 ELSE Zero
           IN  [totalShares |-> acc.totalShares + trade.shares,
                totalCost |-> RSub(acc.totalCost,
                                   RMul(R(Abs(trade.shares)), currentAvgCost))]

\* mutant of WalkStep: a sell is booked like a buy of the same size
WalkStep_SellAdds(acc, trade) ==
  [totalShares |-> acc.totalShares + Abs(trade.shares),
   totalCost |-> RAdd(acc.totalCost, RMul(R(Abs(trade.shares)), R(trade.price)))]

\* mutant of WalkStep: the cost of the shares sold is taken at the sale price
WalkStep_AtSalePrice(acc, trade) ==
  LET tradeValue == RMul(R(Abs(trade.shares)), R(trade.price))
  IN  IF trade.shares > 0
      THEN [totalShares |-> acc.totalShares + trade.shares,
            totalCost |-> RAdd(acc.totalCost, tradeValue)]
      ELSE [totalShares |-> acc.totalShares + trade.shares,
            totalCost |-> RMax(Zero, RSub(acc.totalCost, tradeValue))]

\* one step of the forEach over sortedTrades
WalkStep(acc, trade) ==
  LET tradeValue == RMul(R(Abs(trade.shares)), R(trade.price))
  IN  IF trade.shares > 0
      THEN [totalShares |-> acc.totalShares + trade.shares,
            totalCost |-> RAdd(acc.totalCost, tradeValue)]
      ELSE LET sellShares == Abs(trade.shares)
               currentAvgCost == IF acc.totalShares > 0
                                 THEN RDiv(acc.totalCost, R(acc.totalShares))
                                 ELSE Zero
               soldValue == RMul(R(sellShares), currentAvgCost)
           IN  [totalShares |-> acc.totalShares + trade.shares,
                totalCost |-> RMax(Zero, RSub(acc.totalCost, soldValue))]

RECURSIVE Walk(_)
Walk(sortedTrades) ==
  IF sortedTrades = <<>> THEN [totalShares |-> 0, totalCost |-> Zero]
  ELSE WalkStep(Walk(SubSeq(sortedTrades, 1, Len(sortedTrades) - 1)),
                sortedTrades[Len(sortedTrades)])

\* mutant of Emitted: "non-zero holdings" taken literally
Emitted_NonZero(acc) == acc.totalShares # 0

\* the symbol is emitted only when totalShares > 0
Emitted(acc) == acc.totalShares > 0

\* the holding pushed for a symbol whose walk ended in acc
MakeHolding(symbol, acc) ==
  LET avgCostBasis == RDiv(acc.totalCost, R(acc.totalShares))
      currentPrice == IF symbol \in DOMAIN MOCK_CURRENT_PRICES
                         /\ MOCK_CURRENT_PRICES[symbol] # Zero
                      THEN MOCK_CURRENT_PRICES[symbol]
                      ELSE RMul(avgCostBasis, DefaultMarkup)
      currentValue == RMul(R(acc.totalShares), currentPrice)
      unrealizedGainLoss == RSub(currentValue, acc.totalCost)
  IN  [symbol |-> symbol,
       sharesHeld |-> acc.totalShares,
       avgCostBasis |-> avgCostBasis,
       currentPrice |-> currentPrice,
       currentValue |-> currentValue,
       unrealizedGainLoss |-> unrealizedGainLoss,
       unrealizedGainLossPercent |->
         IF RLt(Zero, acc.totalCost)
         THEN RMul(RDiv(unrealizedGainLoss, acc.totalCost), Hundred) ELSE Zero,
       sector |-> IF symbol \in DOMAIN SECTOR_MAPPING
                  THEN SECTOR_MAPPING[symbol] ELSE SECTOR_MAPPING["default"]]

\* holdings.sort((a, b) => b.currentValue - a.currentValue), stable
RECURSIVE InsertByValueDesc(_, _)
InsertByValueDesc(sorted, h) ==
  IF sorted = <<>> THEN <<h>>
  ELSE LET last == sorted[Len(sorted)]
       IN  IF RLe(h.currentValue, last.currentValue)
           THEN Append(sorted, h)
           ELSE Append(InsertByValueDesc(SubSeq(sorted, 1, Len(sorted) - 1), h), last)

RECURSIVE SortByValueDesc(_)
SortByValueDesc(s) ==
  IF s = <<>> THEN <<>>
  ELSE InsertByValueDesc(SortByValueDesc(SubSeq(s, 1, Len(s) - 1)), s[Len(s)])

\* mutant of SymbolTrades: the group is walked in input order, unsorted
SymbolTrades_Unsorted(trs, symbol) == tradesBySymbol(trs, symbol)

\* the sorted trades of one symbol group
SymbolTrades(trs, symbol) == SortByDate(tradesBySymbol(trs, symbol))

RECURSIVE HoldingsOf(_, _)
HoldingsOf(trs, syms) ==
  IF syms = <<>> THEN <<>>
  ELSE LET rest == HoldingsOf(trs, SubSeq(syms, 1, Len(syms) - 1))
           symbol == syms[Len(syms)]
           acc == Walk(SymbolTrades(trs, symbol))
       IN  IF Emitted(acc) THEN Append(rest, MakeHolding(symbol, acc)) ELSE rest

\* mutant of calculateHoldings: the holdings are returned in symbol order
calculateHoldings_Unsorted(trs) ==
  IF Len(trs) = 0 THEN <<>>
  ELSE HoldingsOf(trs, SymbolKeys(trs))

calculateHoldings(trs) ==
  IF Len(trs) = 0 THEN <<>>
  ELSE SortByValueDesc(HoldingsOf(trs, SymbolKeys(trs)))

(* -------------------- calculatePortfolioMetrics ------------------------ *)
RECURSIVE SumValue(_)
SumValue(hs) ==
  IF hs = <<>> THEN Zero
  ELSE RAdd(SumValue(SubSeq(hs, 1, Len(hs) - 1)), hs[Len(hs)].currentValue)

RECURSIVE SumCost(_)
SumCost(hs) ==
  IF hs = <<>> THEN Zero
  ELSE RAdd(SumCost(SubSeq(hs, 1, Len(hs) - 1)),
            RMul(R(hs[Len(hs)].sharesHeld), hs[Len(hs)].avgCostBasis))

\* mutant of InsertByPercentDesc: equal percentages are put in reverse order
RECURSIVE InsertByPercentDesc_Unstable(_, _)
InsertByPercentDesc_Unstable(sorted, h) ==
  IF sorted = <<>> THEN <<h>>
  ELSE LET last == sorted[Len(sorted)]
       IN  IF RLt(h.unrealizedGainLossPercent, last.unrealizedGainLossPercent)
           THEN Append(sorted, h)
           ELSE Append(InsertByPercentDesc_Unstable(SubSeq(sorted, 1, Len(sorted) - 1), h),
                       last)

\* [...holdings].sort((a, b) => b.unrealizedGainLossPercent - a...), stable
RECURSIVE InsertByPercentDesc(_, _)
InsertByPercentDesc(sorted, h) ==
  IF sorted = <<>> THEN <<h>>
  ELSE LET last == sorted[Len(sorted)]
       IN  IF RLe(h.unrealizedGainLossPercent, last.unrealizedGainLossPercent)
           THEN Append(sorted, h)
           ELSE Append(InsertByPercentDesc(SubSeq(sorted, 1, Len(sorted) - 1), h), last)

RECURSIVE sortedByPerformance(_)
sortedByPerformance(hs) ==
  IF hs = <<>> THEN <<>>
  ELSE InsertByPercentDesc(sortedByPerformance(SubSeq(hs, 1, Len(hs) - 1)), hs[Len(hs)])

Performer(h) == [symbol |-> h.symbol, gainLossPercent |-> h.unrealizedGainLossPercent]

EmptyMetrics ==
  [totalValue |-> Zero, totalCost |-> Zero, totalGainLoss |-> Zero,
   totalGainLossPercent |-> Zero, numUniqueSymbols |-> 0,
   topPerformer |-> "null", worstPerformer |-> "null"]

\* mutant of calculatePortfolioMetrics: the percentage is taken of the value
calculatePortfolioMetrics_PercentOfValue(hs) ==
  IF Len(hs) = 0 THEN EmptyMetrics
  ELSE LET totalValue == SumValue(hs)
           totalCost == SumCost(hs)
           totalGainLoss == RSub(totalValue, totalCost)
           sorted == sortedByPerformance(hs)
       IN  [totalValue |-> totalValue,
            totalCost |-> totalCost,
            totalGainLoss |-> totalGainLoss,
            totalGainLossPercent |->
              IF RLt(Zero, totalCost)
              THEN RMul(RDiv(totalGainLoss, totalValue), Hundred) ELSE Zero,
            numUniqueSymbols |-> Len(hs),
            topPerformer |-> Performer(sorted[1]),
            worstPerformer |-> Performer(sorted[Len(sorted)])]

calculatePortfolioMetrics(hs) ==
  IF Len(hs) = 0 THEN EmptyMetrics
  ELSE LET totalValue == SumValue(hs)
           totalCost == SumCost(hs)
           totalGainLoss == RSub(totalValue, totalCost)
           sorted == sortedByPerformance(hs)
       IN  [totalValue |-> totalValue,
            totalCost |-> totalCost,
            totalGainLoss |-> totalGainLoss,
            totalGainLossPercent |->
              IF RLt(Zero, totalCost)
              THEN RMul(RDiv(totalGainLoss, totalCost), Hundred) ELSE Zero,
            numUniqueSymbols |-> Len(hs),
            topPerformer |-> Performer(sorted[1]),
            worstPerformer |-> Performer(sorted[Len(sorted)])]

(* -------------------- calculatePortfolioHistory ------------------------ *)
\* trades.sort(...) sorts the array it is called on, in place, and returns it
sortedTradesOf(trs) == SortByDate(trs)

\* Object.keys(tradesByDate): the dates in first-insertion order
RECURSIVE DateKeys(_)
DateKeys(s) ==
  IF s = <<>> THEN <<>>
  ELSE LET init == DateKeys(SubSeq(s, 1, Len(s) - 1))
           k == s[Len(s)].date
       IN  IF \E i \in 1..Len(init) : init[i] = k THEN init ELSE Append(init, k)

\* Array.prototype.sort() without comparator on the date strings
RECURSIVE InsertKey(_, _)
InsertKey(sorted, k) ==
  IF sorted = <<>> THEN <<k>>
  ELSE LET last == sorted[Len(sorted)]
       IN  IF last <= k THEN Append(sorted, k)
           ELSE Append(InsertKey(SubSeq(sorted, 1, Len(sorted) - 1), k), last)

RECURSIVE SortKeys(_)
SortKeys(s) ==
  IF s = <<>> THEN <<>>
  ELSE InsertKey(SortKeys(SubSeq(s, 1, Len(s) - 1)), s[Len(s)])

\* tradesByDate[date]
tradesByDate(sorted, date) == SelectSeq(sorted, LAMBDA t : t.date = date)

\* cumulativeTrades after the first k dates
RECURSIVE cumulativeTrades(_, _, _)
cumulativeTrades(sorted, dates, k) ==
  IF k = 0 THEN <<>>
  ELSE cumulativeTrades(sorted, dates, k - 1) \o tradesByDate(sorted, dates[k])

\* mutant of HistoryPoint: trades counts the accumulated trades
HistoryPoint_CumulativeCount(sorted, dates, k) ==
  [date |-> dates[k],
   value |-> SumValue(calculateHoldings(cumulativeTrades(sorted, dates, k))),
   trades |-> Len(cumulativeTrades(sorted, dates, k))]

\* mutant of HistoryPoint: holdings are computed before the date's trades
\* are added to cumulativeTrades
HistoryPoint_BeforeAdd(sorted, dates, k) ==
  [date |-> dates[k],
   value |-> SumValue(calculateHoldings(cumulativeTrades(sorted, dates, k - 1))),
   trades |-> Len(tradesByDate(sorted, dates[k]))]

\* the point pushed for dates[k]
HistoryPoint(sorted, dates, k) ==
  [date |-> dates[k],
   value |-> SumValue(calculateHoldings(cumulativeTrades(sorted, dates, k))),
   trades |-> Len(tradesByDate(sorted, dates[k]))]

calculatePortfolioHistory(trs) ==
  IF Len(trs) = 0 THEN <<>>
  ELSE LET sorted == sortedTradesOf(trs)
           dates == SortKeys(DateKeys(sorted))
       IN  [k \in 1..Len(dates) |-> HistoryPoint(sorted, dates, k)]

\* the caller's array after calculatePortfolioHistory(trades) returned
TradesAfterHistory(trs) == IF Len(trs) = 0 THEN trs ELSE sortedTradesOf(trs)

(* ======================== the CSV trade validator ====================== *)
(* A cell text is a sequence of one-character strings.  A raw cell is      *)
(* [present, text]; present = FALSE is a column the row does not have      *)
(* (row.symbol === undefined).                                             *)
LowerLetters == <<"a","b","c","d","e","f","g","h","i","j","k","l","m",
                  "n","o","p","q","r","s","t","u","v","w","x","y","z">>
UpperLetters == <<"A","B","C","D","E","F","G","H","I","J","K","L","M",
                  "N","O","P","Q","R","S","T","U","V","W","X","Y","Z">>
Digits == <<"0","1","2","3","4","5","6","7","8","9">>
WhiteSpace == {" "}

IsDigit(c) == \E i \in 1..10 : Digits[i] = c
DigitValue(c) == (CHOOSE i \in 1..10 : Digits[i] = c) - 1

\* String.prototype.trim
RECURSIVE TrimStart(_)
TrimStart(s) ==
  IF s # <<>> /\ Head(s) \in WhiteSpace THEN TrimStart(Tail(s)) ELSE s

RECURSIVE TrimEnd(_)
TrimEnd(s) ==
  IF s # <<>> /\ s[Len(s)] \in WhiteSpace THEN TrimEnd(SubSeq(s, 1, Len(s) - 1)) ELSE s

trim(s) == TrimEnd(TrimStart(s))

\* String.prototype.toUpperCase
UpperChar(c) ==
  IF \E i \in 1..26 : LowerLetters[i] = c
  THEN UpperLetters[CHOOSE i \in 1..26 : LowerLetters[i] = c] ELSE c

toUpperCase(s) == [i \in DOMAIN s |-> UpperChar(s[i])]

\* /^[A-Z0-9&]{1,15}$/.test(symbol)
SymbolPattern(symbol) ==
  /\ Len(symbol) >= 1
  /\ Len(symbol) <= 15
  /\ \A i \in DOMAIN symbol :
       \/ \E k \in 1..26 : UpperLetters[k] = symbol[i]
       \/ IsDigit(symbol[i])
       \/ symbol[i] = "&"

(* parseFloat: the longest prefix of the text, after leading white space,  *)
(* that is a decimal literal [+-] (Infinity | digits[.digits] | .digits)   *)
(* [e[+-]digits]; NaN when there is none.  A JS number is                  *)
(* [kind |-> "num" | "inf" | "nan", val |-> rational (the sign for inf)].  *)
NaN == [kind |-> "nan", val |-> Zero]
Num(r) == [kind |-> "num", val |-> r]
isNaN(x) == x.kind = "nan"

\* the position after the run of digits that starts at position i
RECURSIVE DigitsEnd(_, _)
DigitsEnd(s, i) ==
  IF i <= Len(s) /\ IsDigit(s[i]) THEN DigitsEnd(s, i + 1) ELSE i

\* the value of the digits s[i..j-1]
RECURSIVE DigitsVal(_, _, _)
DigitsVal(s, i, j) ==
  IF j <= i THEN 0 ELSE 10 * DigitsVal(s, i, j - 1) + DigitValue(s[j - 1])

RECURSIVE Pow10(_)
Pow10(k) == IF k = 0 THEN 1 ELSE 10 * Pow10(k - 1)

StartsWith(s, i, w) ==
  /\ i + Len(w) - 1 <= Len(s)
  /\ \A k \in 1..Len(w) : s[i + k - 1] = w[k]

InfinityWord == <<"I","n","f","i","n","i","t","y">>

parseFloat(text) ==
  LET s == TrimStart(text)
      signed == s # <<>> /\ s[1] \in {"+", "-"}
      sign == IF s # <<>> /\ s[1] = "-" THEN -1 ELSE 1
      i0 == IF signed THEN 2 ELSE 1
      i1 == DigitsEnd(s, i0)                       \* end of the integer part
      hasDot == i1 <= Len(s) /\ s[i1] = "."
      i2 == IF hasDot THEN DigitsEnd(s, i1 + 1) ELSE i1   \* end of the fraction
      fracLen == IF hasDot THEN i2 - (i1 + 1) ELSE 0
      hasMantissa == (i1 > i0) \/ (fracLen > 0)
      hasE == i2 <= Len(s) /\ s[i2] \in {"e", "E"}
      eSigned == hasE /\ i2 + 1 <= Len(s) /\ s[i2 + 1] \in {"+", "-"}
      e0 == IF eSigned THEN i2 + 2 ELSE i2 + 1
      e1 == IF hasE THEN DigitsEnd(s, e0) ELSE e0
      hasExp == hasE /\ e1 > e0
      expVal == IF hasExp THEN DigitsVal(s, e0, e1) ELSE 0
      expNeg == eSigned /\ s[i2 + 1] = "-"
      mantissa == Rat(DigitsVal(s, i0, i1) * Pow10(fracLen)
                        + (IF hasDot THEN DigitsVal(s, i1 + 1, i2) ELSE 0),
                      Pow10(fracLen))
      scaled == IF expNeg THEN RDiv(mantissa, R(Pow10(expVal)))
                ELSE RMul(mantissa, R(Pow10(expVal)))
  IN  IF StartsWith(s, i0, InfinityWord) THEN [kind |-> "inf", val |-> R(sign)]
      ELSE IF hasMantissa THEN Num(RMul(R(sign), scaled))
      ELSE NaN

\* shares === 0
IsZero(x) == x.kind = "num" /\ x.val = Zero
\* price <= 0
IsNotPositive(x) ==
  \/ x.kind = "num" /\ RLe(x.val, Zero)
  \/ x.kind = "inf" /\ RLt(x.val, Zero)

(* Dates.  Time is counted in minutes since the epoch (UTC); a calendar    *)
(* day is its day index.  The text of a date cell is modelled by its       *)
(* format and the calendar day it writes:                                  *)
(*   "iso"   YYYY-MM-DD, which new Date() reads as UTC midnight,           *)
(*   "us"    MM/DD/YYYY, which new Date() reads as local midnight,         *)
(*   "text"  text that new Date() cannot parse (Invalid Date),             *)
(*   "empty" the empty string or white space only.                         *)
(* tz is the machine's offset from UTC in minutes (local = UTC + tz).      *)
MinutesPerDay == 24 * 60

\* new Date(dateStr)
NewDate(cell, tz) ==
  CASE cell.fmt = "iso" -> [valid |-> TRUE, time |-> cell.day * MinutesPerDay]
    [] cell.fmt = "us" -> [valid |-> TRUE, time |-> cell.day * MinutesPerDay - tz]
    [] OTHER -> [valid |-> FALSE, time |-> 0]

\* mutant of toISODate: the day is rounded up instead of down
toISODate_RoundUp(time) == (time + MinutesPerDay - 1) \div MinutesPerDay + 1

\* parsedDate.toISOString().split('T')[0]: the UTC calendar day of the instant
toISODate(time) == time \div MinutesPerDay

(* ------------------------------ validateRow ---------------------------- *)
CSVError(rowNumber, field, message) ==
  [row |-> rowNumber, field |-> field, message |-> message]

\* row.symbol?.trim().toUpperCase()
SymbolOfRow(row) == toUpperCase(trim(row.symbol.text))

SymbolErrors(row, rowNumber) ==
  IF ~row.symbol.present \/ SymbolOfRow(row) = <<>>
  THEN <<CSVError(rowNumber, "symbol", "Symbol is required")>>
  ELSE IF ~SymbolPattern(SymbolOfRow(row))
  THEN <<CSVError(rowNumber, "symbol",
                  "Symbol must be 1-15 uppercase letters, numbers, or & symbol")>>
  ELSE <<>>

SharesOfRow(row) == parseFloat(trim(row.shares.text))

SharesErrors(row, rowNumber) ==
  IF ~row.shares.present \/ trim(row.shares.text) = <<>>
  THEN <<CSVError(rowNumber, "shares", "Shares is required")>>
  ELSE IF isNaN(SharesOfRow(row)) \/ IsZero(SharesOfRow(row))
  THEN <<CSVError(rowNumber, "shares", "Shares must be a non-zero number")>>
  ELSE <<>>

PriceOfRow(row) == parseFloat(trim(row.price.text))

PriceErrors(row, rowNumber) ==
  IF ~row.price.present \/ trim(row.price.text) = <<>>
  THEN <<CSVError(rowNumber, "price", "Price is required")>>
  ELSE IF isNaN(PriceOfRow(row)) \/ IsNotPositive(PriceOfRow(row))
  THEN <<CSVError(rowNumber, "price", "Price must be a positive number")>>
  ELSE <<>>

DateErrors(row, rowNumber, now, tz) ==
  IF ~row.date.present \/ row.date.fmt = "empty"
  THEN <<CSVError(rowNumber, "date", "Date is required")>>
  ELSE IF ~NewDate(row.date, tz).valid
  THEN <<CSVError(rowNumber, "date",
                  "Date must be in a valid format (e.g., 2024-06-12 or 06/12/2024)")>>
  ELSE IF NewDate(row.date, tz).time > now
  THEN <<CSVError(rowNumber, "date", "Date cannot be in the future")>>
  ELSE <<>>

\* mutant of RowErrors: validation stops at the first failing field
RowErrors_FirstOnly(row, rowNumber, now, tz) ==
  LET all == SymbolErrors(row, rowNumber) \o SharesErrors(row, rowNumber)
               \o PriceErrors(row, rowNumber) \o DateErrors(row, rowNumber, now, tz)
  IN  IF all = <<>> THEN <<>> ELSE <<all[1]>>

\* the errors array at the end of validateRow
RowErrors(row, rowNumber, now, tz) ==
  SymbolErrors(row, rowNumber) \o SharesErrors(row, rowNumber)
    \o PriceErrors(row, rowNumber) \o DateErrors(row, rowNumber, now, tz)

\* a ValidatedRow; trade is <<>> for null and <<t>> for the Trade t
validateRow(row, rowNumber, now, tz) ==
  LET errors == RowErrors(row, rowNumber, now, tz)
  IN  IF Len(errors) = 0
      THEN [trade |-> <<[symbol |-> SymbolOfRow(row),
                         shares |-> SharesOfRow(row),
                         price |-> PriceOfRow(row),
                         date |-> toISODate(NewDate(row.date, tz).time)]>>,
            errors |-> <<>>]
      ELSE [trade |-> <<>>, errors |-> errors]

(* -------------------------------- parseCSV ----------------------------- *)
\* mutant of RowNumberOf: the header row is not counted
RowNumberOf_HeaderNotCounted(index) == index + 1

\* rowNumber of results.data[index], index 0-based
RowNumberOf(index) == index + 2

\* the validateRow results of the forEach over results.data
ValidatedRows(data, now, tz) ==
  [k \in DOMAIN data |-> validateRow(data[k], RowNumberOf(k - 1), now, tz)]

RECURSIVE CollectTrades(_)
CollectTrades(vs) ==
  IF vs = <<>> THEN <<>>
  ELSE LET init == CollectTrades(SubSeq(vs, 1, Len(vs) - 1))
           v == vs[Len(vs)]
       IN  IF Len(v.errors) > 0 THEN init ELSE init \o v.trade

RECURSIVE CollectErrors(_)
CollectErrors(vs) ==
  IF vs = <<>> THEN <<>>
  ELSE LET init == CollectErrors(SubSeq(vs, 1, Len(vs) - 1))
           v == vs[Len(vs)]
       IN  IF Len(v.errors) > 0 THEN init \o v.errors ELSE init

\* mutant of CompleteResult: isValid tells whether any trade was produced
CompleteResult_ValidIfTrades(vs) ==
  [trades |-> CollectTrades(vs),
   errors |-> CollectErrors(vs),
   isValid |-> Len(CollectTrades(vs)) > 0]

\* what the complete callback resolves with
CompleteResult(vs) ==
  [trades |-> CollectTrades(vs),
   errors |-> CollectErrors(vs),
   isValid |-> Len(CollectErrors(vs)) = 0]

\* what the error callback resolves with
ErrorResult ==
  [trades |-> <<>>,
   errors |-> <<CSVError(0, "file", "Failed to parse CSV")>>,
   isValid |-> FALSE]

(* ------------------------------ state ---------------------------------- *)
VARIABLES
  trades,            \* the caller's Trade[] array
  holdings,          \* the caller's Holding[] array (result of calculateHoldings)
  portfolioMetrics,  \* result of calculatePortfolioMetrics(holdings)
  portfolioHistory,  \* result of calculatePortfolioHistory(trades)
  op,                \* the operation that produced the state
  rows,              \* results.data: the data rows of the uploaded document
  papaErrors,        \* results.errors: what the CSV tokenizer reported
  validated,         \* the ValidatedRow returned for each row
  result,            \* the ParsedCSVResult the promise of parseCSV resolved with
  now,               \* new Date() at validation time, minutes since the epoch
  tz,                \* the machine's offset from UTC, minutes
  isLoading,         \* appState.isLoading
  error,             \* appState.error: <<>> for null, <<e>> for a message
  filters,           \* appState.filters, or the arguments filterHoldings got
  filtered,          \* the array filterHoldings returned
  storedAppState,    \* localStorage['portfolio-analyzer-state']: <<>> or <<entry>>
  storedPreferences, \* localStorage['portfolio-analyzer-preferences']: <<>> or <<p>>
  timers,            \* the timers set and neither fired nor cleared, oldest first
  timeoutId,         \* timeoutId in the closure of debounce: <<>> or <<timer>>
  autoSaveTimeout,   \* the module variable autoSaveTimeout: <<>> or <<timer>>
  isInitialized,     \* the isInitialized state of Home
  events             \* the calls of the debounced functions and the runs of
                     \* their callbacks, in order

engineVars == <<trades, holdings, portfolioMetrics, portfolioHistory>>
csvVars == <<rows, papaErrors, validated, result, now, tz>>
viewVars == <<filters, filtered>>
storeVars == <<storedAppState, storedPreferences, timers, timeoutId, autoSaveTimeout,
               isInitialized, events>>
appVars == <<isLoading, error, viewVars, storeVars>>
vars == <<trades, holdings, portfolioMetrics, portfolioHistory, op,
          rows, papaErrors, validated, result, now, tz, isLoading, error,
          filters, filtered, storedAppState, storedPreferences, timers, timeoutId,
          autoSaveTimeout, isInitialized, events>>

\* the promise of parseCSV before it is resolved
Pending == [trades |-> <<>>, errors |-> <<>>, isValid |-> FALSE]

InitEngine ==
  /\ trades = <<>>
  /\ holdings = <<>>
  /\ portfolioMetrics = EmptyMetrics
  /\ portfolioHistory = <<>>
  /\ op = "init"

InitParser ==
  /\ papaErrors = <<>>
  /\ validated = <<>>
  /\ result = Pending

\* initialFilters; the search term is a sequence of characters, null is <<>>
initialFilters ==
  [searchTerm |-> <<>>,
   selectedSector |-> "",
   dateRange |-> [from |-> <<>>, to |-> <<>>],
   sortBy |-> "currentValue",
   sortDirection |-> "desc",
   currentPage |-> 1,
   itemsPerPage |-> 10]

\* initialAppState: not loading, no error, the initial filters
InitApp ==
  /\ isLoading = FALSE
  /\ error = <<>>
  /\ filters = initialFilters
  /\ filtered = <<>>

\* nothing stored, no timer set, Home not initialized yet
InitStore ==
  /\ storedAppState = <<>>
  /\ storedPreferences = <<>>
  /\ timers = <<>>
  /\ timeoutId = <<>>
  /\ autoSaveTimeout = <<>>
  /\ isInitialized = FALSE
  /\ events = <<>>

(* ------------------------ the engine, Spec ----------------------------- *)
Init ==
  /\ InitEngine
  /\ InitParser
  /\ InitApp
  /\ InitStore
  /\ rows = <<>>
  /\ now = 0
  /\ tz = 0

\* the caller appends a valid trade to the list it is going to pass in
AddTrade(t) ==
  /\ op \in {"init", "addTrade"}
  /\ Len(trades) < MaxTrades
  /\ trades' = Append(trades, t)
  /\ op' = "addTrade"
  /\ UNCHANGED <<holdings, portfolioMetrics, portfolioHistory>>
  /\ UNCHANGED csvVars
  /\ UNCHANGED appVars

\* the calls are made in the order every caller in page.tsx makes them
CallCalculateHoldings ==
  /\ op \in {"init", "addTrade"}
  /\ holdings' = calculateHoldings(trades)
  /\ op' = "calculateHoldings"
  /\ UNCHANGED <<trades, portfolioMetrics, portfolioHistory>>
  /\ UNCHANGED csvVars
  /\ UNCHANGED appVars

CallCalculatePortfolioMetrics ==
  /\ op = "calculateHoldings"
  /\ portfolioMetrics' = calculatePortfolioMetrics(holdings)
  /\ op' = "calculatePortfolioMetrics"
  /\ UNCHANGED <<trades, holdings, portfolioHistory>>
  /\ UNCHANGED csvVars
  /\ UNCHANGED appVars

CallCalculatePortfolioHistory ==
  /\ op = "calculatePortfolioMetrics"
  /\ portfolioHistory' = calculatePortfolioHistory(trades)
  /\ trades' = TradesAfterHistory(trades)
  /\ op' = "calculatePortfolioHistory"
  /\ UNCHANGED <<holdings, portfolioMetrics>>
  /\ UNCHANGED csvVars
  /\ UNCHANGED appVars

Next ==
  \/ \E t \in Trade : AddTrade(t)
  \/ CallCalculateHoldings
  \/ CallCalculatePortfolioMetrics
  \/ CallCalculatePortfolioHistory

Spec == Init /\ [][Next]_vars

(* --------------------- the inputs of the validator --------------------- *)
Absent == [present |-> FALSE, text |-> <<>>]
Cell(text) == [present |-> TRUE, text |-> text]

SymbolCells ==
  { Absent,
    Cell(<<>>),
    Cell(<<" ", "a", "a", "p", "l", " ">>),
    Cell(<<"M", "&", "M">>),
    Cell(<<"A", "-", "B">>),
    Cell([i \in 1..16 |-> "A"]) }

SharesCells ==
  { Absent,
    Cell(<<" ">>),
    Cell(<<"2">>),
    Cell(<<"-", "1">>),
    Cell(<<"1", ".", "5">>),
    Cell(<<"0">>),
    Cell(<<"a", "b", "c">>),
    Cell(<<"1", "2", "a", "b", "c">>) }

PriceCells ==
  { Absent,
    Cell(<<"1", "0", "0">>),
    Cell(<<"1", "e", "2">>),
    Cell(<<"0", ".", "0">>),
    Cell(<<"-", "5">>),
    Cell(<<"x">>) }

\* the calendar days written in the date cells: yesterday, today, tomorrow
\* of the validation clock
CellDays == 9..11

DateCells ==
  {[present |-> FALSE, fmt |-> "empty", day |-> 0],
   [present |-> TRUE, fmt |-> "empty", day |-> 0],
   [present |-> TRUE, fmt |-> "text", day |-> 0]}
  \cup [present : {TRUE}, fmt : {"iso", "us"}, day : CellDays]

RawRows == [symbol : SymbolCells, shares : SharesCells, price : PriceCells, date : DateCells]

\* validation happens on day 10, early and late in the (UTC) day
Clocks == {10 * MinutesPerDay + 60, 10 * MinutesPerDay + 23 * 60}
\* New York (winter), UTC, India
TimeZones == {-300, 0, 330}

(* -------------------- validateRow alone, SpecRow ----------------------- *)
InitRow ==
  /\ InitEngine
  /\ InitParser
  /\ InitApp
  /\ InitStore
  /\ rows \in {<<r>> : r \in RawRows}
  /\ now \in Clocks
  /\ tz \in TimeZones

\* validateRow(row, rowNumber) on the first data row of a document
CallValidateRow ==
  /\ op = "init"
  /\ validated' = <<validateRow(rows[1], RowNumberOf(0), now, tz)>>
  /\ op' = "validateRow"
  /\ UNCHANGED <<rows, papaErrors, result, now, tz>>
  /\ UNCHANGED engineVars
  /\ UNCHANGED appVars

(* String(number) of a number that has a finite decimal expansion, as     *)
(* Number.prototype.toString writes it between 1e-6 and 1e21: an optional  *)
(* "-", the integer digits, and "." with the fraction digits if any.       *)
RECURSIVE DigitsOfNat(_)
DigitsOfNat(n) ==
  IF n < 10 THEN <<Digits[n + 1]>>
  ELSE Append(DigitsOfNat(n \div 10), Digits[(n % 10) + 1])

\* the number of fraction digits of the rational r (at most 6 are looked for)
RECURSIVE DecimalPlaces(_, _)
DecimalPlaces(r, k) ==
  IF k >= 6 \/ (r.n * Pow10(k)) % r.d = 0 THEN k ELSE DecimalPlaces(r, k + 1)

\* the digits of n, padded with zeros on the left to k digits
RECURSIVE PadZeros(_, _)
PadZeros(ds, k) == IF Len(ds) >= k THEN ds ELSE PadZeros(<<"0">> \o ds, k)

NumberToString(x) ==
  IF x.kind = "nan" THEN <<"N", "a", "N">>
  ELSE IF x.kind = "inf"
  THEN (IF RLt(x.val, Zero) THEN <<"-">> ELSE <<>>) \o InfinityWord
  ELSE LET k == DecimalPlaces(x.val, 0)
           scaled == (Abs(x.val.n) * Pow10(k)) \div x.val.d
           int == scaled \div Pow10(k)
           frac == scaled % Pow10(k)
       IN  (IF x.val.n < 0 THEN <<"-">> ELSE <<>>)
             \o DigitsOfNat(int)
             \o (IF k = 0 THEN <<>> ELSE <<".">> \o PadZeros(DigitsOfNat(frac), k))

\* the row written from the string forms of a Trade's fields
RowOfTrade(t) ==
  [symbol |-> Cell(t.symbol),
   shares |-> Cell(NumberToString(t.shares)),
   price |-> Cell(NumberToString(t.price)),
   date |-> [present |-> TRUE, fmt |-> "iso", day |-> t.date]]

\* validateRow on the row written from the Trade that validateRow returned
CallRevalidate ==
  /\ op = "validateRow"
  /\ Len(validated[1].trade) = 1
  /\ rows' = <<RowOfTrade(validated[1].trade[1])>>
  /\ validated' = <<validateRow(RowOfTrade(validated[1].trade[1]), RowNumberOf(0), now, tz)>>
  /\ op' = "revalidate"
  /\ UNCHANGED <<papaErrors, result, now, tz>>
  /\ UNCHANGED engineVars
  /\ UNCHANGED appVars

NextRow ==
  \/ CallValidateRow
  \/ CallRevalidate

SpecRow == InitRow /\ [][NextRow]_vars

(* ------------------------- parseCSV, SpecCsv --------------------------- *)
GoodDate == [present |-> TRUE, fmt |-> "iso", day |-> 9]

\* the data rows the documents are made of
SampleRows ==
  { [symbol |-> Cell(<<"A", "A", "P", "L">>), shares |-> Cell(<<"1", "0">>),
     price |-> Cell(<<"1", "0", "0">>), date |-> GoodDate],
    [symbol |-> Cell(<<"t", "c", "s">>), shares |-> Cell(<<"-", "3">>),
     price |-> Cell(<<"2", ".", "5">>), date |-> GoodDate],
    [symbol |-> Cell(<<>>), shares |-> Cell(<<"1", "0">>),
     price |-> Cell(<<"1", "0", "0">>), date |-> GoodDate],
    [symbol |-> Cell(<<"A", "A", "P", "L">>), shares |-> Cell(<<"0">>),
     price |-> Cell(<<"-", "5">>), date |-> GoodDate],
    [symbol |-> Absent, shares |-> Absent, price |-> Absent,
     date |-> [present |-> FALSE, fmt |-> "empty", day |-> 0]] }

\* results.errors of Papa.parse: nothing, or a quoted field that is never
\* closed (malformed CSV syntax); both come with the complete callback
TokenizerErrors == {<<>>, <<"MissingQuotes">>}

InitCsv ==
  /\ InitEngine
  /\ InitParser
  /\ InitApp
  /\ InitStore
  /\ rows = <<>>
  /\ now \in Clocks
  /\ tz \in TimeZones

\* one more data row in the uploaded document
AddRow(r) ==
  /\ op \in {"init", "addRow"}
  /\ Len(rows) < MaxRows
  /\ rows' = Append(rows, r)
  /\ op' = "addRow"
  /\ UNCHANGED <<papaErrors, validated, result, now, tz>>
  /\ UNCHANGED engineVars
  /\ UNCHANGED appVars

\* Papa.parse calls complete(results)
PapaComplete(errs) ==
  /\ op \in {"init", "addRow"}
  /\ papaErrors' = errs
  /\ validated' = ValidatedRows(rows, now, tz)
  /\ result' = CompleteResult(ValidatedRows(rows, now, tz))
  /\ op' = "complete"
  /\ UNCHANGED <<rows, now, tz>>
  /\ UNCHANGED engineVars
  /\ UNCHANGED appVars

\* Papa.parse calls error(error): the file could not be read
PapaError ==
  /\ op \in {"init", "addRow"}
  /\ result' = ErrorResult
  /\ op' = "error"
  /\ UNCHANGED <<rows, papaErrors, validated, now, tz>>
  /\ UNCHANGED engineVars
  /\ UNCHANGED appVars

NextCsv ==
  \/ \E r \in SampleRows : AddRow(r)
  \/ \E errs \in TokenizerErrors : PapaComplete(errs)
  \/ PapaError

SpecCsv == InitCsv /\ [][NextCsv]_vars

(* ------------- calculatePortfolioMetrics alone, SpecMetrics ------------ *)
\* the symbols of the holdings passed in: one priced, two without a price
MetricSymbols == {"AAPL", "YYY", "ZZZ"}

\* the positions the holdings are made of: shares held and their cost
Positions ==
  {[totalShares |-> 1, totalCost |-> R(150)],
   [totalShares |-> 1, totalCost |-> R(200)],
   [totalShares |-> 2, totalCost |-> R(200)]}

\* the holdings calculateHoldings pushes for these symbols and positions
SampleHoldings == {MakeHolding(s, acc) : s \in MetricSymbols, acc \in Positions}

\* the caller appends a holding of a symbol that is not in the list yet
AddHolding(h) ==
  /\ op \in {"init", "addHolding"}
  /\ Len(holdings) < MaxHoldings
  /\ \A i \in DOMAIN holdings : holdings[i].symbol # h.symbol
  /\ holdings' = Append(holdings, h)
  /\ op' = "addHolding"
  /\ UNCHANGED <<trades, portfolioMetrics, portfolioHistory>>
  /\ UNCHANGED csvVars
  /\ UNCHANGED appVars

\* calculatePortfolioMetrics(holdings) on the list as the caller built it
CallMetricsOnHoldings ==
  /\ op \in {"init", "addHolding"}
  /\ portfolioMetrics' = calculatePortfolioMetrics(holdings)
  /\ op' = "calculatePortfolioMetrics"
  /\ UNCHANGED <<trades, holdings, portfolioHistory>>
  /\ UNCHANGED csvVars
  /\ UNCHANGED appVars

NextMetrics ==
  \/ \E h \in SampleHoldings : AddHolding(h)
  \/ CallMetricsOnHoldings

SpecMetrics == Init /\ [][NextMetrics]_vars

(* -------------------- filterHoldings alone, SpecFilter ----------------- *)
Range(f) == {f[i] : i \in DOMAIN f}

\* String.prototype.toLowerCase
LowerChar(c) ==
  IF \E i \in 1..26 : UpperLetters[i] = c
  THEN LowerLetters[CHOOSE i \in 1..26 : UpperLetters[i] = c] ELSE c

toLowerCase(s) == [i \in DOMAIN s |-> LowerChar(s[i])]

\* String.prototype.includes
includes(s, t) ==
  \E i \in 1..(Len(s) - Len(t) + 1) : SubSeq(s, i, i + Len(t) - 1) = t

\* eleven symbols, one more than a page of the table holds
PageSymbols == <<"QA", "QB", "QC", "QD", "QE", "QF", "QG", "QH", "QI", "QJ", "QK">>

\* the characters of the symbols and sectors of the holdings
Spelling ==
  [str \in {"AAPL", "YYY", "ZZZ", "Technology", "Other"} \cup Range(PageSymbols) |->
     CASE str = "AAPL" -> <<"A", "A", "P", "L">>
       [] str = "YYY" -> <<"Y", "Y", "Y">>
       [] str = "ZZZ" -> <<"Z", "Z", "Z">>
       [] str = "Technology" -> <<"T", "e", "c", "h", "n", "o", "l", "o", "g", "y">>
       [] str = "Other" -> <<"O", "t", "h", "e", "r">>
       [] str = "QA" -> <<"Q", "A">>
       [] str = "QB" -> <<"Q", "B">>
       [] str = "QC" -> <<"Q", "C">>
       [] str = "QD" -> <<"Q", "D">>
       [] str = "QE" -> <<"Q", "E">>
       [] str = "QF" -> <<"Q", "F">>
       [] str = "QG" -> <<"Q", "G">>
       [] str = "QH" -> <<"Q", "H">>
       [] str = "QI" -> <<"Q", "I">>
       [] str = "QJ" -> <<"Q", "J">>
       [] str = "QK" -> <<"Q", "K">>]

\* the place of a letter in the alphabet, whatever its case
LetterRank(c) == CHOOSE i \in 1..26 : LowerLetters[i] = LowerChar(c)

\* String.prototype.localeCompare on words of letters: alphabetical, a word
\* before its extensions (words that differ only in case are not compared)
RECURSIVE CompareLetters(_, _)
CompareLetters(x, y) ==
  IF x = <<>> /\ y = <<>> THEN 0
  ELSE IF x = <<>> THEN -1
  ELSE IF y = <<>> THEN 1
  ELSE IF LetterRank(x[1]) < LetterRank(y[1]) THEN -1
  ELSE IF LetterRank(x[1]) > LetterRank(y[1]) THEN 1
  ELSE CompareLetters(Tail(x), Tail(y))

localeCompare(a, b) == CompareLetters(Spelling[a], Spelling[b])

\* typeof aValue === 'string': the string-valued keys of Holding
StringColumns == {"symbol", "sector"}

\* a[sortBy] of a number-valued key, as a rational
NumberOf(h, sortBy) == IF sortBy = "sharesHeld" THEN R(h[sortBy]) ELSE h[sortBy]

\* the sign of `comparison` in the comparator of filtered.sort
comparison(a, b, sortBy) ==
  IF sortBy \in StringColumns THEN localeCompare(a[sortBy], b[sortBy])
  ELSE IF RLt(NumberOf(a, sortBy), NumberOf(b, sortBy)) THEN -1
  ELSE IF RLt(NumberOf(b, sortBy), NumberOf(a, sortBy)) THEN 1
  ELSE 0

\* mutant of Comparator: the direction is ignored
Comparator_Ascending(a, b, sortBy, sortDirection) == comparison(a, b, sortBy)

\* sortDirection === 'asc' ? comparison : -comparison
Comparator(a, b, sortBy, sortDirection) ==
  IF sortDirection = "asc" THEN comparison(a, b, sortBy) ELSE -comparison(a, b, sortBy)

\* filtered.sort(comparator), stable
RECURSIVE InsertHolding(_, _, _, _)
InsertHolding(sorted, h, sortBy, sortDirection) ==
  IF sorted = <<>> THEN <<h>>
  ELSE LET last == sorted[Len(sorted)]
       IN  IF Comparator(last, h, sortBy, sortDirection) <= 0
           THEN Append(sorted, h)
           ELSE Append(InsertHolding(SubSeq(sorted, 1, Len(sorted) - 1), h,
                                     sortBy, sortDirection), last)

RECURSIVE SortHoldings(_, _, _)
SortHoldings(hs, sortBy, sortDirection) ==
  IF hs = <<>> THEN <<>>
  ELSE InsertHolding(SortHoldings(SubSeq(hs, 1, Len(hs) - 1), sortBy, sortDirection),
                     hs[Len(hs)], sortBy, sortDirection)

\* if (searchTerm) filtered = filtered.filter(...)
SearchFiltered(hs, searchTerm) ==
  IF searchTerm # <<>>
  THEN LET term == toLowerCase(searchTerm)
       IN  SelectSeq(hs, LAMBDA h :
             \/ includes(toLowerCase(Spelling[h.symbol]), term)
             \/ includes(toLowerCase(Spelling[h.sector]), term))
  ELSE hs

\* if (selectedSector && selectedSector !== 'all') filtered = filtered.filter(...)
SectorFiltered(hs, selectedSector) ==
  IF selectedSector # "" /\ selectedSector # "all"
  THEN SelectSeq(hs, LAMBDA h : h.sector = selectedSector)
  ELSE hs

\* the array filterHoldings returns
filterHoldings(hs, searchTerm, selectedSector, sortBy, sortDirection) ==
  SortHoldings(SectorFiltered(SearchFiltered(hs, searchTerm), selectedSector),
               sortBy, sortDirection)

\* the caller's array after the call: with no search term and no sector
\* `filtered` is still the array passed in, and filtered.sort sorts it in
\* place; Array.prototype.filter returns a new array
HoldingsAfterFilter(hs, searchTerm, selectedSector, sortBy, sortDirection) ==
  IF searchTerm = <<>> /\ (selectedSector = "" \/ selectedSector = "all")
  THEN filterHoldings(hs, searchTerm, selectedSector, sortBy, sortDirection)
  ELSE hs

\* what is typed into the search box: nothing, part of a symbol, part of a
\* sector, a letter of a symbol and of another holding's sector
SearchTerms == {<<>>, <<"a", "A">>, <<"O", "t", "h">>, <<"Y">>}
SectorChoices == {"", "all", "Technology", "Other"}
SortColumns == {"symbol", "sector", "sharesHeld", "currentValue"}
SortDirections == {"asc", "desc"}

\* filterHoldings(holdings, searchTerm, selectedSector, sortBy, sortDirection)
CallFilterHoldings(searchTerm, selectedSector, sortBy, sortDirection) ==
  /\ op \in {"init", "addHolding"}
  /\ filtered' = filterHoldings(holdings, searchTerm, selectedSector, sortBy, sortDirection)
  /\ holdings' = HoldingsAfterFilter(holdings, searchTerm, selectedSector,
                                     sortBy, sortDirection)
  /\ filters' = [filters EXCEPT !.searchTerm = searchTerm,
                                !.selectedSector = selectedSector,
                                !.sortBy = sortBy,
                                !.sortDirection = sortDirection]
  /\ op' = "filterHoldings"
  /\ UNCHANGED <<trades, portfolioMetrics, portfolioHistory>>
  /\ UNCHANGED csvVars
  /\ UNCHANGED <<isLoading, error>>
  /\ UNCHANGED storeVars

NextFilter ==
  \/ \E h \in SampleHoldings : AddHolding(h)
  \/ \E searchTerm \in SearchTerms, selectedSector \in SectorChoices,
        sortBy \in SortColumns, sortDirection \in SortDirections :
       CallFilterHoldings(searchTerm, selectedSector, sortBy, sortDirection)

SpecFilter == Init /\ [][NextFilter]_vars

(* ------------- debounce and debouncedSaveAppState, SpecDebounce -------- *)
\* Date.now() and the delays of timers are counted in seconds
Millis(ms) == ms \div 1000
SecondsPerDay == 24 * 60 * 60
\* Date.now() when the page is opened
Clock0 == 20000 * SecondsPerDay

\* DEFAULT_PREFERENCES (the fields that are read)
DEFAULT_PREFERENCES == [itemsPerPage |-> 10, autoSave |-> TRUE]

\* loadPreferences(): the defaults, overridden by what is stored
loadPreferences ==
  IF storedPreferences = <<>> THEN DEFAULT_PREFERENCES
  ELSE [DEFAULT_PREFERENCES EXCEPT !.autoSave = storedPreferences[1].autoSave]

\* the entry saveAppState(state) writes at time `at`
StoredState(state, at) ==
  [kind |-> "state", tradesIsArray |-> TRUE, trades |-> state.trades, lastUpdated |-> at]

RECURSIVE Without(_, _)
Without(ts, t) ==
  IF ts = <<>> THEN <<>>
  ELSE IF ts[1] = t THEN Tail(ts)
  ELSE <<ts[1]>> \o Without(Tail(ts), t)

\* mutant of clearTimeout: the timer set before is left running
clearTimeout_Nothing(ts, handle) == ts

\* clearTimeout(handle): the timer, if it is still set, is removed; undefined,
\* null and the handle of a timer that has fired clear nothing
clearTimeout(ts, handle) == IF handle = <<>> THEN ts ELSE Without(ts, handle[1])

\* setTimeout(callback, delay) at time `at`: the timer set
Timer(owner, args, delay, at) == [owner |-> owner, args |-> args, due |-> at + delay]

\* the arguments the debounced functions are called with
DebounceArgs == {"a", "b"}
SaveArgs ==
  {[trades |-> <<[symbol |-> "AAPL", shares |-> 1, price |-> 150, date |-> 2]>>],
   [trades |-> <<[symbol |-> "ZZZ", shares |-> 2, price |-> 100, date |-> 1]>>]}

Calls == Cardinality({i \in DOMAIN events : events[i].kind = "call"})

\* a call of the function debounce(func, Delay) returned
CallDebounced(args) ==
  /\ Calls < MaxCalls
  /\ timers' = Append(clearTimeout(timers, timeoutId), Timer("debounce", args, Delay, now))
  /\ timeoutId' = <<Timer("debounce", args, Delay, now)>>
  /\ events' = Append(events, [kind |-> "call", owner |-> "debounce", args |-> args,
                               at |-> now, autoSave |-> FALSE, wrote |-> FALSE])
  /\ op' = "debounced"
  /\ UNCHANGED <<storedAppState, storedPreferences, autoSaveTimeout, isInitialized>>
  /\ UNCHANGED <<engineVars, csvVars, isLoading, error, viewVars>>

\* debouncedSaveAppState(state, Delay)
CallDebouncedSaveAppState(state) ==
  /\ Calls < MaxCalls
  /\ timers' = Append(clearTimeout(timers, autoSaveTimeout),
                      Timer("autoSave", state, Delay, now))
  /\ autoSaveTimeout' = <<Timer("autoSave", state, Delay, now)>>
  /\ events' = Append(events, [kind |-> "call", owner |-> "autoSave", args |-> state,
                               at |-> now, autoSave |-> FALSE, wrote |-> FALSE])
  /\ op' = "debouncedSaveAppState"
  /\ UNCHANGED <<storedAppState, storedPreferences, timeoutId, isInitialized>>
  /\ UNCHANGED <<engineVars, rows, papaErrors, validated, result, tz, now>>
  /\ UNCHANGED <<isLoading, error, viewVars>>

\* a timer that is due fires: () => func(...args), or the callback of
\* debouncedSaveAppState, which saves if preferences.autoSave
TimerFires(i) ==
  /\ i \in DOMAIN timers
  /\ timers[i].due <= now
  /\ timers' = Without(timers, timers[i])
  /\ storedAppState' =
       IF timers[i].owner = "autoSave" /\ loadPreferences.autoSave
       THEN <<StoredState(timers[i].args, now)>>
       ELSE storedAppState
  /\ events' = Append(events,
       [kind |-> "run", owner |-> timers[i].owner, args |-> timers[i].args, at |-> now,
        autoSave |-> loadPreferences.autoSave,
        wrote |-> (timers[i].owner = "autoSave" /\ loadPreferences.autoSave)])
  /\ op' = "timer"
  /\ UNCHANGED <<storedPreferences, timeoutId, autoSaveTimeout, isInitialized>>
  /\ UNCHANGED <<engineVars, csvVars, isLoading, error, viewVars>>

\* time passes; a timer that is due fires before time passes again
Tick ==
  /\ now < Clock0 + MaxClock
  /\ \A i \in DOMAIN timers : timers[i].due > now
  /\ now' = now + 1
  /\ op' = "tick"
  /\ UNCHANGED <<engineVars, rows, papaErrors, validated, result, tz>>
  /\ UNCHANGED <<isLoading, error, viewVars, storeVars>>

\* savePreferences({ autoSave })
SavePreferences(autoSave) ==
  /\ storedPreferences # <<[autoSave |-> autoSave]>>
  /\ storedPreferences' = <<[autoSave |-> autoSave]>>
  /\ op' = "savePreferences"
  /\ UNCHANGED <<storedAppState, timers, timeoutId, autoSaveTimeout, isInitialized, events>>
  /\ UNCHANGED <<engineVars, csvVars, isLoading, error, viewVars>>

NextDebounce ==
  \/ \E args \in DebounceArgs : CallDebounced(args)
  \/ \E state \in SaveArgs : CallDebouncedSaveAppState(state)
  \/ \E i \in DOMAIN timers : TimerFires(i)
  \/ Tick
  \/ \E autoSave \in BOOLEAN : SavePreferences(autoSave)

InitDebounce ==
  /\ InitEngine
  /\ InitParser
  /\ InitApp
  /\ InitStore
  /\ rows = <<>>
  /\ now = Clock0
  /\ tz = 0

SpecDebounce == InitDebounce /\ [][NextDebounce]_vars

(* ------------------- the upload handler, SpecApp ----------------------- *)
\* the trades of the uploaded documents; the first is dated after the others
UploadTrades ==
  {[symbol |-> "AAPL", shares |-> 1, price |-> 150, date |-> 2],
   [symbol |-> "ZZZ", shares |-> 2, price |-> 100, date |-> 1],
   [symbol |-> "AAPL", shares |-> -2, price |-> 160, date |-> 1]}

RECURSIVE SeqsUpTo(_, _)
SeqsUpTo(S, n) ==
  IF n = 0 THEN {<<>>}
  ELSE LET shorter == SeqsUpTo(S, n - 1)
       IN  shorter \cup {Append(q, x) : q \in shorter, x \in S}

\* the errors of a document: none, or one row without a symbol
UploadErrors == {<<>>, <<CSVError(2, "symbol", "Symbol is required")>>}

\* the ParsedCSVResult values parseCSV resolves with (isValid as in its
\* complete callback: no errors)
UploadResults ==
  {[trades |-> ts, errors |-> es, isValid |-> Len(es) = 0] :
     ts \in SeqsUpTo(UploadTrades, MaxUpload), es \in UploadErrors}

\* mutant of Accepts: a result is taken as soon as it holds a trade
Accepts_AnyTrades(r) == Len(r.trades) > 0

\* result.isValid && result.trades.length > 0
Accepts(r) == r.isValid /\ Len(r.trades) > 0

\* `CSV parsing failed with ${result.errors.length} errors`
ParsingFailed(r) == [message |-> "CSV parsing failed with n errors", n |-> Len(r.errors)]

\* appState.holdings after HoldingsTable has rendered with the filters f:
\* its useMemo calls filterHoldings on the array of the state
Rendered(hs, f) ==
  HoldingsAfterFilter(hs, f.searchTerm, f.selectedSector, f.sortBy, f.sortDirection)

\* debouncedSaveAppState(state) with the default delay of 1000 ms
DefaultSaveDelay == Millis(1000)

\* the effect "Auto-save trades when they change", run after a render in
\* which appState.trades or isInitialized changed, with isInitialized true:
\* debouncedSaveAppState({ trades }) if there are trades
AutoSaveEffect(newTrades) ==
  IF Len(newTrades) > 0
  THEN /\ timers' = Append(clearTimeout(timers, autoSaveTimeout),
                           Timer("autoSave", [trades |-> newTrades], DefaultSaveDelay, now))
       /\ autoSaveTimeout' = <<Timer("autoSave", [trades |-> newTrades],
                                     DefaultSaveDelay, now)>>
  ELSE UNCHANGED <<timers, autoSaveTimeout>>

\* handleDataParsed(result), with the effect its render runs; appState.trades
\* is the array result.trades, which calculatePortfolioHistory has sorted;
\* the calculations do not throw, so the catch branch is never taken.
HandleDataParsed(r) ==
  /\ isInitialized
  /\ IF Accepts(r)
     THEN /\ holdings' = Rendered(calculateHoldings(r.trades), filters)
          /\ portfolioMetrics' = calculatePortfolioMetrics(calculateHoldings(r.trades))
          /\ portfolioHistory' = calculatePortfolioHistory(r.trades)
          /\ trades' = TradesAfterHistory(r.trades)
          /\ result' = [r EXCEPT !.trades = TradesAfterHistory(r.trades)]
          /\ isLoading' = FALSE
          /\ error' = <<>>
          /\ AutoSaveEffect(TradesAfterHistory(r.trades))
     ELSE /\ result' = r
          /\ isLoading' = FALSE
          /\ error' = <<ParsingFailed(r)>>
          /\ UNCHANGED <<trades, holdings, portfolioMetrics, portfolioHistory>>
          /\ UNCHANGED <<timers, autoSaveTimeout>>
  /\ op' = "handleDataParsed"
  /\ UNCHANGED <<rows, papaErrors, validated, now, tz>>
  /\ UNCHANGED viewVars
  /\ UNCHANGED <<storedAppState, storedPreferences, timeoutId, isInitialized, events>>

NextApp == \E r \in UploadResults : HandleDataParsed(r)

\* Home after initializeApp found nothing stored
InitMounted ==
  /\ InitEngine
  /\ InitParser
  /\ InitApp
  /\ rows = <<>>
  /\ now = Clock0
  /\ tz = 0
  /\ storedAppState = <<>>
  /\ storedPreferences = <<>>
  /\ timers = <<>>
  /\ timeoutId = <<>>
  /\ autoSaveTimeout = <<>>
  /\ isInitialized = TRUE
  /\ events = <<>>

SpecApp == InitMounted /\ [][NextApp]_vars

(* ------------------ the holdings table, SpecPage ----------------------- *)
Min(a, b) == IF a <= b THEN a ELSE b
Max(a, b) == IF a >= b THEN a ELSE b

\* paginateData(data, page, itemsPerPage)
paginateData(data, page, itemsPerPage) ==
  LET totalItems == Len(data)
      totalPages == (totalItems + itemsPerPage - 1) \div itemsPerPage
      startIndex == (page - 1) * itemsPerPage
      endIndex == Min(startIndex + itemsPerPage, totalItems)
  IN  [items |-> SubSeq(data, startIndex + 1, endIndex),
       totalPages |-> totalPages,
       totalItems |-> totalItems,
       startIndex |-> startIndex,
       endIndex |-> endIndex]

\* filteredData and paginatedData of HoldingsTable for the state's holdings
\* and filters
filteredData ==
  filterHoldings(holdings, filters.searchTerm, filters.selectedSector,
                 filters.sortBy, filters.sortDirection)
paginatedData == paginateData(filteredData, filters.currentPage, filters.itemsPerPage)

\* the pages the buttons of the table lead to: none unless rows are shown
\* and there is more than one page; Previous, Next and up to five numbers
ButtonsOf(page) ==
  IF page.totalItems = 0 \/ page.totalPages <= 1 THEN {}
  ELSE LET first == Max(1, Min(page.totalPages - 4, filters.currentPage - 2))
       IN  {n \in {filters.currentPage - 1} : filters.currentPage > 1}
             \cup {n \in {filters.currentPage + 1} : filters.currentPage < page.totalPages}
             \cup {n \in {first + i : i \in 0..(Min(5, page.totalPages) - 1)} :
                     n <= page.totalPages}
PageButtons == ButtonsOf(paginatedData)

\* handleFiltersChange(newFilters) and the render that follows
FiltersChange(newFilters) ==
  /\ isInitialized
  /\ filters' = newFilters
  /\ holdings' = Rendered(holdings, newFilters)
  /\ UNCHANGED <<trades, portfolioMetrics, portfolioHistory, filtered>>
  /\ UNCHANGED <<csvVars, isLoading, error>>
  /\ UNCHANGED <<storedAppState, storedPreferences, autoSaveTimeout, isInitialized, events>>

\* typing in the search box: handleSearchChange(value) calls the debounced
\* search, debounce(..., 300); 300 ms is less than the unit of time, so the
\* timer is due at once and fires as a later step
HandleSearchChange(value) ==
  /\ isInitialized
  /\ Len(holdings) > 0
  /\ timers' = Append(clearTimeout(timers, timeoutId),
                      Timer("debounce", value, Millis(300), now))
  /\ timeoutId' = <<Timer("debounce", value, Millis(300), now)>>
  /\ op' = "handleSearchChange"
  /\ UNCHANGED <<engineVars, csvVars, isLoading, error, viewVars>>
  /\ UNCHANGED <<storedAppState, storedPreferences, autoSaveTimeout, isInitialized, events>>

\* the timer of the debounced search fires: onFiltersChange({ searchTerm })
SearchFires(i) ==
  /\ i \in DOMAIN timers
  /\ timers[i].owner = "debounce"
  /\ timers[i].due <= now
  /\ timers' = Without(timers, timers[i])
  /\ FiltersChange([filters EXCEPT !.searchTerm = timers[i].args])
  /\ op' = "searchFires"
  /\ UNCHANGED timeoutId

\* handleSort(column)
HandleSort(column) ==
  /\ Len(filteredData) > 0
  /\ FiltersChange([filters EXCEPT
       !.sortBy = column,
       !.sortDirection = IF filters.sortBy = column /\ filters.sortDirection = "desc"
                         THEN "asc" ELSE "desc",
       !.currentPage = 1])
  /\ op' = "handleSort"
  /\ UNCHANGED <<timers, timeoutId>>

\* handlePageChange(newPage); newPage is what a button of the table passes
HandlePageChange(newPage) ==
  /\ FiltersChange([filters EXCEPT !.currentPage = newPage])
  /\ op' = "handlePageChange"
  /\ UNCHANGED <<timers, timeoutId>>

\* handleSectorChange(value) of PortfolioFilters
HandleSectorChange(value) ==
  /\ Len(holdings) > 0
  /\ FiltersChange([filters EXCEPT
       !.selectedSector = IF value = "all" THEN "" ELSE value,
       !.currentPage = 1])
  /\ op' = "handleSectorChange"
  /\ UNCHANGED <<timers, timeoutId>>

\* handleDateRangeChange(type, value) of PortfolioFilters; value is '' or a date
HandleDateRangeChange(type, value) ==
  /\ Len(holdings) > 0
  /\ FiltersChange([filters EXCEPT !.dateRange[type] = value, !.currentPage = 1])
  /\ op' = "handleDateRangeChange"
  /\ UNCHANGED <<timers, timeoutId>>

\* the documents uploaded: eleven symbols, and the first of them alone
PageUploads ==
  {[trades |-> [i \in 1..n |-> [symbol |-> PageSymbols[i], shares |-> 1,
                                price |-> 100, date |-> 1]],
    errors |-> <<>>, isValid |-> TRUE] : n \in {1, Len(PageSymbols)}}

\* what is typed into the search box: nothing, or the start of one symbol
PageSearchTerms == {<<>>, <<"q", "a">>}

NextPage ==
  \/ \E r \in PageUploads : HandleDataParsed(r)
  \/ \E value \in PageSearchTerms : HandleSearchChange(value)
  \/ \E i \in DOMAIN timers : SearchFires(i)
  \/ \E column \in {"symbol", "currentValue"} : HandleSort(column)
  \/ \E newPage \in PageButtons : HandlePageChange(newPage)
  \/ \E value \in {"all", "Other"} : HandleSectorChange(value)
  \/ \E value \in {<<1>>} : HandleDateRangeChange("from", value)

SpecPage == InitMounted /\ [][NextPage]_vars

(* ---------------- storage, autosave and clear, SpecStore --------------- *)
\* const maxAge = 30 * 24 * 60 * 60 * 1000
maxAge == 30 * 24 * 60 * 60 * Millis(1000)

\* mutant of IsTooOld: an entry of exactly maxAge is dropped as well
IsTooOld_Inclusive(entry, at) == at - entry.lastUpdated >= maxAge

\* Date.now() - parsedState.lastUpdated > maxAge
IsTooOld(entry, at) == at - entry.lastUpdated > maxAge

\* what loadAppState returns at time `at`: <<>> for null, or <<{trades}>>;
\* JSON.parse throws on an entry that is no JSON text
loadAppState(stored, at) ==
  IF stored = <<>> THEN <<>>
  ELSE IF stored[1].kind # "state" THEN <<>>
  ELSE IF ~stored[1].tradesIsArray THEN <<>>
  ELSE IF IsTooOld(stored[1], at) THEN <<>>
  ELSE <<[trades |-> stored[1].trades]>>

\* the stored entry after loadAppState: clearAppState() on the three failures
StoredAfterLoad(stored, at) ==
  IF stored = <<>> THEN stored
  ELSE IF loadAppState(stored, at) = <<>> THEN <<>>
  ELSE stored

\* the trades lists found in storage; the program stores trades sorted
StoredTradeLists ==
  {<<>>,
   <<[symbol |-> "ZZZ", shares |-> 2, price |-> 100, date |-> 1],
     [symbol |-> "AAPL", shares |-> 1, price |-> 150, date |-> 2]>>}

\* what is found under 'portfolio-analyzer-state' when the page is opened:
\* nothing, a text that is no JSON, an object whose trades is no array, and
\* entries saved a day ago, exactly 30 days ago and a second more than that
StoredEntries ==
  {<<>>,
   <<[kind |-> "text", tradesIsArray |-> FALSE, trades |-> <<>>, lastUpdated |-> 0]>>}
  \cup {<<[kind |-> "state", tradesIsArray |-> FALSE, trades |-> <<>>,
           lastUpdated |-> Clock0 - SecondsPerDay]>>}
  \cup {<<[kind |-> "state", tradesIsArray |-> TRUE, trades |-> ts, lastUpdated |-> Clock0 - age]>> :
          ts \in StoredTradeLists, age \in {SecondsPerDay, maxAge, maxAge + 1}}

StoredPreferenceEntries == {<<>>, <<[autoSave |-> FALSE]>>}

InitStored ==
  /\ InitEngine
  /\ InitParser
  /\ InitApp
  /\ rows = <<>>
  /\ now = Clock0
  /\ tz = 0
  /\ storedAppState \in StoredEntries
  /\ storedPreferences \in StoredPreferenceEntries
  /\ timers = <<>>
  /\ timeoutId = <<>>
  /\ autoSaveTimeout = <<>>
  /\ isInitialized = FALSE
  /\ events = <<>>

\* the mount effect of Home: initializeApp(), and the effects of the render
\* that follows it; stored filters are not part of the model
InitializeApp ==
  /\ ~isInitialized
  /\ LET savedState == loadAppState(storedAppState, now)
     IN  IF savedState # <<>> /\ Len(savedState[1].trades) > 0
         THEN /\ holdings' = Rendered(calculateHoldings(savedState[1].trades), filters)
              /\ portfolioMetrics' =
                   calculatePortfolioMetrics(calculateHoldings(savedState[1].trades))
              /\ portfolioHistory' = calculatePortfolioHistory(savedState[1].trades)
              /\ trades' = TradesAfterHistory(savedState[1].trades)
              /\ AutoSaveEffect(TradesAfterHistory(savedState[1].trades))
         ELSE /\ UNCHANGED <<trades, holdings, portfolioMetrics, portfolioHistory>>
              /\ UNCHANGED <<timers, autoSaveTimeout>>
  /\ storedAppState' = StoredAfterLoad(storedAppState, now)
  /\ isInitialized' = TRUE
  /\ op' = "initializeApp"
  /\ UNCHANGED <<storedPreferences, timeoutId, events>>
  /\ UNCHANGED <<csvVars, isLoading, error, viewVars>>

\* handleClearAllData, the user confirming: clearAllStoredData() and
\* setAppState(initialAppState); the auto-save effect finds no trades
HandleClearAllData ==
  /\ isInitialized
  /\ storedAppState' = <<>>
  /\ storedPreferences' = <<>>
  /\ trades' = <<>>
  /\ holdings' = <<>>
  /\ portfolioMetrics' = EmptyMetrics
  /\ portfolioHistory' = <<>>
  /\ filters' = initialFilters
  /\ isLoading' = FALSE
  /\ error' = <<>>
  /\ op' = "handleClearAllData"
  /\ UNCHANGED <<timers, timeoutId, autoSaveTimeout, isInitialized, events>>
  /\ UNCHANGED <<csvVars, filtered>>

\* handleManualSave: saveAppState({ trades }) if there are trades
HandleManualSave ==
  /\ isInitialized
  /\ Len(trades) > 0
  /\ storedAppState' = <<StoredState([trades |-> trades], now)>>
  /\ op' = "handleManualSave"
  /\ UNCHANGED <<storedPreferences, timers, timeoutId, autoSaveTimeout, isInitialized, events>>
  /\ UNCHANGED <<engineVars, csvVars, isLoading, error, viewVars>>

\* the timer of debouncedSaveAppState fires in the running app
AutoSaveFires(i) ==
  /\ i \in DOMAIN timers
  /\ timers[i].owner = "autoSave"
  /\ timers[i].due <= now
  /\ timers' = Without(timers, timers[i])
  /\ storedAppState' =
       IF loadPreferences.autoSave THEN <<StoredState(timers[i].args, now)>>
       ELSE storedAppState
  /\ op' = "autoSave"
  /\ UNCHANGED <<storedPreferences, timeoutId, autoSaveTimeout, isInitialized, events>>
  /\ UNCHANGED <<engineVars, csvVars, isLoading, error, viewVars>>

\* the documents uploaded: two holdings of equal value given latest first,
\* one trade, and a document with a valid row and a row in error
StoreUploads ==
  {[trades |-> <<[symbol |-> "YYY", shares |-> 2, price |-> 100, date |-> 2],
                 [symbol |-> "ZZZ", shares |-> 2, price |-> 100, date |-> 1]>>,
    errors |-> <<>>, isValid |-> TRUE],
   [trades |-> <<[symbol |-> "AAPL", shares |-> 1, price |-> 150, date |-> 1]>>,
    errors |-> <<>>, isValid |-> TRUE],
   [trades |-> <<[symbol |-> "AAPL", shares |-> 1, price |-> 150, date |-> 1]>>,
    errors |-> <<CSVError(3, "symbol", "Symbol is required")>>, isValid |-> FALSE]}

NextStore ==
  \/ InitializeApp
  \/ \E r \in StoreUploads : HandleDataParsed(r)
  \/ HandleClearAllData
  \/ HandleManualSave
  \/ \E i \in DOMAIN timers : AutoSaveFires(i)
  \/ Tick

SpecStore == InitStored /\ [][NextStore]_vars

(* ======================= properties of the engine ====================== *)
CallOps == {"calculateHoldings", "calculatePortfolioMetrics", "calculatePortfolioHistory"}

\* the signed share total of a symbol over a trade list
RECURSIVE NetShares(_, _)
NetShares(trs, symbol) ==
  IF trs = <<>> THEN 0
  ELSE NetShares(Tail(trs), symbol)
       + (IF Head(trs).symbol = symbol THEN Head(trs).shares ELSE 0)

\* C1: every holding returned by calculateHoldings has sharesHeld > 0, and no
\* symbol whose signed share total is zero or negative appears in the output.
C1_PositiveShares ==
  op \in CallOps =>
    /\ \A i \in DOMAIN holdings : holdings[i].sharesHeld > 0
    /\ \A s \in Symbols :
         NetShares(trades, s) <= 0 => \A i \in DOMAIN holdings : holdings[i].symbol # s

\* C1 witness: a symbol was oversold (it has a buy, its total is negative) and
\* is absent, while another symbol is held.
C1_Witness ==
  /\ op = "calculateHoldings"
  /\ Len(holdings) = 1
  /\ \E s \in Symbols :
       /\ NetShares(trades, s) < 0
       /\ \E i \in DOMAIN trades : trades[i].symbol = s /\ trades[i].shares > 0

\* the indices of a symbol's trades, in ascending date order, same-date
\* trades in input order
WalkOrder(trs, symbol) ==
  LET idx == {i \in DOMAIN trs : trs[i].symbol = symbol}
      Before(i, j) == \/ trs[i].date < trs[j].date
                      \/ trs[i].date = trs[j].date /\ i < j
  IN  [k \in 1..Cardinality(idx) |->
         CHOOSE i \in idx : Cardinality({j \in idx : Before(j, i)}) = k - 1]

\* totalShares and totalCost after the first k trades of the walk, as the
\* claim states them
RECURSIVE Running(_, _, _)
Running(trs, order, k) ==
  IF k = 0 THEN [totalShares |-> 0, totalCost |-> Zero]
  ELSE LET prev == Running(trs, order, k - 1)
           t == trs[order[k]]
           n == R(Abs(t.shares))
       IN  IF t.shares > 0
           THEN [totalShares |-> prev.totalShares + t.shares,
                 totalCost |-> RAdd(prev.totalCost, RMul(n, R(t.price)))]
           ELSE LET avg == IF prev.totalShares > 0
                           THEN RDiv(prev.totalCost, R(prev.totalShares)) ELSE Zero
                    reduced == RSub(prev.totalCost, RMul(n, avg))
                IN  [totalShares |-> prev.totalShares + t.shares,
                     totalCost |-> IF RLt(reduced, Zero) THEN Zero ELSE reduced]

Final(trs, symbol) ==
  LET order == WalkOrder(trs, symbol) IN Running(trs, order, Len(order))

C3_InputsNotMutated ==
  [][/\ op' = "calculateHoldings" => trades' = trades
     /\ op' = "calculatePortfolioMetrics" => holdings' = holdings
     /\ op' = "calculatePortfolioHistory" => trades' = trades]_vars

\* the reorderings of a list of n elements
Perms(n) == {f \in [1..n -> 1..n] : \A i, j \in 1..n : f[i] = f[j] => i = j}
Reorder(trs, f) == [i \in DOMAIN trs |-> trs[f[i]]]

\* f keeps the relative order of the trades that share symbol and date
KeepsSameDayOrder(trs, f) ==
  \A i, j \in DOMAIN trs :
    (i < j /\ trs[f[i]].symbol = trs[f[j]].symbol /\ trs[f[i]].date = trs[f[j]].date)
      => f[i] < f[j]

\* C4 (as stated): calculateHoldings returns the same holdings for every
\* reordering of the input trade list.
C4_AnyReordering ==
  op = "calculateHoldings" =>
    \A f \in Perms(Len(trades)) : calculateHoldings(Reorder(trades, f)) = holdings

\* C4 (amended): calculateHoldings returns the same set of holdings for every
\* reordering of the input that keeps the relative order of the trades that
\* share both symbol and date.
C4_SameDayOrderKept ==
  op = "calculateHoldings" =>
    \A f \in Perms(Len(trades)) :
      KeepsSameDayOrder(trades, f)
        => Range(calculateHoldings(Reorder(trades, f))) = Range(holdings)

\* C4 witness: a held symbol given as a sell of the later date followed by
\* two different buys of the earlier date, so that reorderings exist that
\* move trades across dates and ones that swap the same-day buys
C4_Witness ==
  /\ op = "calculateHoldings"
  /\ Len(trades) = 3
  /\ Len(holdings) = 1
  /\ \A i \in DOMAIN trades : trades[i].symbol = trades[1].symbol
  /\ trades[1].shares < 0 /\ trades[2].shares > 0 /\ trades[3].shares > 0
  /\ trades[2].shares # trades[3].shares
  /\ trades[1].date > trades[2].date /\ trades[2].date = trades[3].date

\* the trades of a list dated on or before a date, in list order
UpTo(trs, date) == SelectSeq(trs, LAMBDA t : t.date <= date)

\* what the claim says of the history of the trade list trs
IsHistoryOf(hist, trs) ==
  /\ {hist[k].date : k \in DOMAIN hist} = {trs[i].date : i \in DOMAIN trs}
  /\ \A k \in DOMAIN hist : k > 1 => hist[k - 1].date < hist[k].date
  /\ \A k \in DOMAIN hist :
       /\ hist[k].value = SumValue(calculateHoldings(UpTo(trs, hist[k].date)))
       /\ hist[k].trades = Cardinality({i \in DOMAIN trs : trs[i].date = hist[k].date})

\* C5: calculatePortfolioHistory returns one point per distinct trade date in
\* strictly ascending date order; a point's value is the summed currentValue
\* of calculateHoldings over the trades dated on or before it, and its trades
\* field counts the trades dated exactly that date.
C5_HistoryPoints ==
  [][op' = "calculatePortfolioHistory" => IsHistoryOf(portfolioHistory', trades)]_vars

\* C5 witness: two trades of different symbols on one date share one point
\* with trades = 2, and a later date has its own point
C5_Witness ==
  /\ op = "calculatePortfolioHistory"
  /\ Len(portfolioHistory) = 2
  /\ portfolioHistory[1].trades = 2
  /\ portfolioHistory[1].value # Zero
  /\ \E i, j \in DOMAIN trades :
       /\ trades[i].date = trades[j].date
       /\ trades[i].date = portfolioHistory[1].date
       /\ trades[i].symbol # trades[j].symbol

\* C6: for a non-empty trade list the value of the last history point equals
\* PortfolioMetrics.totalValue of calculateHoldings over the full list.
C6_LastPointIsTotalValue ==
  (op = "calculatePortfolioHistory" /\ trades # <<>>) =>
    portfolioHistory[Len(portfolioHistory)].value = portfolioMetrics.totalValue

\* C6 witness: a history of two dates whose last value is a non-zero total
\* that differs from the first point's value
C6_Witness ==
  /\ op = "calculatePortfolioHistory"
  /\ Len(portfolioHistory) = 2
  /\ portfolioHistory[2].value # Zero
  /\ portfolioHistory[2].value # portfolioHistory[1].value
  /\ portfolioHistory[2].value = portfolioMetrics.totalValue

(* ====================== properties of the validator ==================== *)
Fields == {"symbol", "shares", "price", "date"}

\* a field of a row fails its rule
FieldFails(row, field, clock, zone) ==
  CASE field = "symbol" ->
         \/ ~row.symbol.present
         \/ ~SymbolPattern(toUpperCase(trim(row.symbol.text)))
    [] field = "shares" ->
         \/ ~row.shares.present
         \/ parseFloat(trim(row.shares.text)).kind = "nan"
         \/ parseFloat(trim(row.shares.text)) = Num(Zero)
    [] field = "price" ->
         \/ ~row.price.present
         \/ parseFloat(trim(row.price.text)).kind = "nan"
         \/ ~RLt(Zero, parseFloat(trim(row.price.text)).val)
    [] field = "date" ->
         \/ ~row.date.present
         \/ row.date.fmt \notin {"iso", "us"}
         \/ NewDate(row.date, zone).time > clock

FailingFields(row, clock, zone) == {f \in Fields : FieldFails(row, f, clock, zone)}

\* the number of errors of a list that carry a row number
ErrorsWithRow(errors, n) == Cardinality({i \in DOMAIN errors : errors[i].row = n})

\* C7 (as stated): the errors of the k-th data row carry row number k, the
\* first data row being row 1.
C7_RowNumberFromOne ==
  op = "complete" =>
    /\ \A k \in DOMAIN rows :
         ErrorsWithRow(result.errors, k) = Cardinality(FailingFields(rows[k], now, tz))
    /\ \A i \in DOMAIN result.errors : result.errors[i].row \in DOMAIN rows

\* C7 (amended): the errors of the k-th data row carry row number k + 1 (the
\* header row counts as row 1), so the first data row is row 2.
C7_RowNumberCountsHeader ==
  op = "complete" =>
    /\ \A k \in DOMAIN rows :
         ErrorsWithRow(result.errors, k + 1) = Cardinality(FailingFields(rows[k], now, tz))
    /\ \A i \in DOMAIN result.errors : result.errors[i].row - 1 \in DOMAIN rows

\* C7 witness: the first data row is good, the second has one failing field
\* and the third has two, so the errors carry the row numbers 3, 4 and 4
C7_Witness ==
  /\ op = "complete"
  /\ Len(rows) = 3
  /\ FailingFields(rows[1], now, tz) = {}
  /\ FailingFields(rows[2], now, tz) = {"symbol"}
  /\ FailingFields(rows[3], now, tz) = {"shares", "price"}
  /\ Len(result.errors) = 3

\* C8: validateRow returns a Trade with no errors or no Trade with at least
\* one error; every failing field among symbol, shares, price and date has
\* exactly one error, a passing field none, so at most four errors.
C8_TradeOrErrors ==
  op = "validateRow" =>
    LET v == validated[1]
        failing == FailingFields(rows[1], now, tz)
    IN  /\ Len(v.trade) = 1 <=> v.errors = <<>>
        /\ Len(v.trade) = 0 <=> Len(v.errors) > 0
        /\ Len(v.errors) <= 4
        /\ \A i \in DOMAIN v.errors : v.errors[i].field \in failing
        /\ \A f \in failing :
             Cardinality({i \in DOMAIN v.errors : v.errors[i].field = f}) = 1

\* C8 witness: a row whose four fields all fail, the symbol by its characters
\* and the date by lying in the future, got four errors and no trade
C8_Witness ==
  /\ op = "validateRow"
  /\ Len(validated[1].errors) = 4
  /\ validated[1].trade = <<>>
  /\ rows[1].symbol.text = <<"A", "-", "B">>
  /\ rows[1].date.fmt = "iso"

\* the indices of the rows without a failing field, ascending
RECURSIVE GoodRows(_, _, _)
GoodRows(data, clock, zone) ==
  IF data = <<>> THEN <<>>
  ELSE LET init == GoodRows(SubSeq(data, 1, Len(data) - 1), clock, zone)
       IN  IF FailingFields(data[Len(data)], clock, zone) = {}
           THEN Append(init, Len(data)) ELSE init

\* C9: isValid is true exactly when errors is empty; trades holds one Trade
\* per data row without a failing field, in input row order, whatever the
\* other rows are.
C9_PartialFailure ==
  op = "complete" =>
    LET good == GoodRows(rows, now, tz)
    IN  /\ result.isValid <=> result.errors = <<>>
        /\ Len(result.trades) = Len(good)
        /\ \A j \in DOMAIN good :
             /\ validated[good[j]].errors = <<>>
             /\ result.trades[j] = validated[good[j]].trade[1]
             /\ result.trades[j].symbol = toUpperCase(trim(rows[good[j]].symbol.text))

\* C9 witness: a row with errors stands between two good rows of different
\* symbols; both trades are returned in row order and isValid is false
C9_Witness ==
  /\ op = "complete"
  /\ Len(rows) = 3
  /\ FailingFields(rows[2], now, tz) # {}
  /\ Len(result.trades) = 2
  /\ result.trades[1].symbol = <<"T", "C", "S">>
  /\ result.trades[2].symbol = <<"A", "A", "P", "L">>
  /\ ~result.isValid

\* the document could not be parsed as a whole: the file could not be read,
\* or the tokenizer reported malformed CSV syntax
NotParsable == op = "error" \/ (op = "complete" /\ papaErrors # <<>>)

\* C10: when the document cannot be parsed as a whole, parseCSV returns
\* exactly one error, with row 0 and field 'file', no trades and isValid
\* false, whatever rows were collected.
C10_FileErrorOnly ==
  NotParsable =>
    /\ Len(result.errors) = 1
    /\ result.errors[1].row = 0
    /\ result.errors[1].field = "file"
    /\ result.trades = <<>>
    /\ ~result.isValid

\* the Trade validateRow returned for the row, when it returned one
Accepted == op = "validateRow" /\ Len(validated[1].trade) = 1
HasError(v, field) == \E i \in DOMAIN v.errors : v.errors[i].field = field

\* C11: for a row whose date parses, the Trade's date is the calendar day
\* written in the input, for the YYYY-MM-DD and the MM/DD/YYYY form and for
\* every timezone offset of the validating machine.
C11_SameCalendarDay ==
  Accepted => validated[1].trade[1].date = rows[1].date.day

\* the current calendar date of the validating machine (its local date)
LocalToday == (now + tz) \div MinutesPerDay

\* C12: a row whose date parses gets the error 'Date cannot be in the future'
\* exactly when its calendar date is strictly later than the current date,
\* whatever the time of day and the timezone.
C12_FutureIffAfterToday ==
  (op = "validateRow" /\ rows[1].date.present /\ rows[1].date.fmt \in {"iso", "us"}) =>
    ((\E i \in DOMAIN validated[1].errors :
        validated[1].errors[i].message = "Date cannot be in the future")
       <=> rows[1].date.day > LocalToday)

\* a text is a number: [+-] digits [. digits] with at least one digit,
\* optionally followed by e [+-] digits, and nothing else
PlainDecimal(s) ==
  /\ \E i \in DOMAIN s : IsDigit(s[i])
  /\ \A i \in DOMAIN s : IsDigit(s[i]) \/ s[i] = "."
  /\ Cardinality({i \in DOMAIN s : s[i] = "."}) <= 1

Unsigned(s) == IF s # <<>> /\ s[1] \in {"+", "-"} THEN Tail(s) ELSE s

IsNumberText(s) ==
  LET es == {i \in DOMAIN s : s[i] \in {"e", "E"}}
  IN  IF es = {} THEN PlainDecimal(Unsigned(s))
      ELSE /\ Cardinality(es) = 1
           /\ LET p == CHOOSE i \in es : TRUE
                  ex == Unsigned(SubSeq(s, p + 1, Len(s)))
              IN  /\ PlainDecimal(Unsigned(SubSeq(s, 1, p - 1)))
                  /\ ex # <<>>
                  /\ \A i \in DOMAIN ex : IsDigit(ex[i])

\* C13: a row whose shares text is missing, not a number or zero gets a
\* shares error, and a row whose price text is missing, not a number, zero
\* or negative gets a price error; text that only starts with digits is not
\* a number.
C13_NumbersOnly ==
  op = "validateRow" =>
    /\ (\/ ~rows[1].shares.present
        \/ ~IsNumberText(trim(rows[1].shares.text))
        \/ parseFloat(trim(rows[1].shares.text)) = Num(Zero))
         => HasError(validated[1], "shares")
    /\ (\/ ~rows[1].price.present
        \/ ~IsNumberText(trim(rows[1].price.text))
        \/ RLe(parseFloat(trim(rows[1].price.text)).val, Zero))
         => HasError(validated[1], "price")

\* C14: the row written from the string forms of the fields of a Trade that
\* validateRow returned is accepted by validateRow without errors.
C14_RoundTrip ==
  op = "revalidate" => validated[1].errors = <<>> /\ Len(validated[1].trade) = 1

\* C14 witness: a Trade with a fractional share count and today's date was
\* written back as a row and validated again
C14_Witness ==
  /\ op = "revalidate"
  /\ rows[1].shares.text = <<"1", ".", "5">>
  /\ rows[1].price.text = <<"1", "0", "0">>
  /\ rows[1].date.day = 10
  /\ validated[1].trade # <<>>

\* the states in which portfolioMetrics holds calculatePortfolioMetrics(holdings)
MetricsOps == {"calculatePortfolioMetrics", "calculatePortfolioHistory"}

\* the sum of currentValue, and of sharesHeld * avgCostBasis, from index i on
RECURSIVE ValueFrom(_, _)
ValueFrom(hs, i) ==
  IF i > Len(hs) THEN Zero ELSE RAdd(hs[i].currentValue, ValueFrom(hs, i + 1))

RECURSIVE CostFrom(_, _)
CostFrom(hs, i) ==
  IF i > Len(hs) THEN Zero
  ELSE RAdd(RMul(R(hs[i].sharesHeld), hs[i].avgCostBasis), CostFrom(hs, i + 1))

\* C15: the totals of calculatePortfolioMetrics: totalValue is the sum of
\* currentValue, totalCost the sum of sharesHeld * avgCostBasis, totalGainLoss
\* their difference, totalGainLossPercent = totalGainLoss / totalCost * 100
\* when totalCost > 0 and 0 otherwise, numUniqueSymbols the number of
\* holdings.
C15_Totals ==
  op \in MetricsOps =>
    LET value == ValueFrom(holdings, 1)
        cost == CostFrom(holdings, 1)
    IN  /\ portfolioMetrics.totalValue = value
        /\ portfolioMetrics.totalCost = cost
        /\ portfolioMetrics.totalGainLoss = RSub(value, cost)
        /\ portfolioMetrics.totalGainLossPercent =
             IF RLt(Zero, cost) THEN RMul(RDiv(RSub(value, cost), cost), Hundred)
             ELSE Zero
        /\ portfolioMetrics.numUniqueSymbols = Len(holdings)

\* C15 witness: metrics of two holdings with a gain on a positive cost
C15_Witness ==
  /\ op = "calculatePortfolioMetrics"
  /\ Len(holdings) = 2
  /\ RLt(Zero, portfolioMetrics.totalCost)
  /\ portfolioMetrics.totalGainLossPercent # Zero
  /\ portfolioMetrics.totalValue # portfolioMetrics.totalCost

\* C17: a held symbol without a mock price is valued at avgCostBasis * 1.05,
\* so its gain is exactly 5% of its cost, and a symbol without a sector
\* entry gets the sector 'Other'.
C17_Defaults ==
  op \in CallOps =>
    \A i \in DOMAIN holdings :
      LET h == holdings[i]
          cost == RMul(R(h.sharesHeld), h.avgCostBasis)
      IN  /\ h.symbol \notin DOMAIN MOCK_CURRENT_PRICES =>
               /\ h.currentPrice = RMul(h.avgCostBasis, Rat(105, 100))
               /\ h.unrealizedGainLoss = RMul(cost, Rat(5, 100))
               /\ h.unrealizedGainLossPercent = R(5)
          /\ h.symbol \notin DOMAIN SECTOR_MAPPING => h.sector = "Other"
          /\ h.symbol \in DOMAIN MOCK_CURRENT_PRICES =>
               h.currentPrice = MOCK_CURRENT_PRICES[h.symbol]

\* C17 witness: a holding of the unpriced symbol, bought at two prices
C17_Witness ==
  /\ op = "calculateHoldings"
  /\ \E i \in DOMAIN holdings :
       /\ holdings[i].symbol = "ZZZ"
       /\ holdings[i].sharesHeld = 3
       /\ holdings[i].sector = "Other"

\* C18: the holdings are returned in descending order of currentValue.
C18_ValueDescending ==
  op \in CallOps =>
    \A i \in DOMAIN holdings : \A j \in DOMAIN holdings :
      i < j => RLe(holdings[j].currentValue, holdings[i].currentValue)

\* C18 witness: the symbol traded second is returned first
C18_Witness ==
  /\ op = "calculateHoldings"
  /\ Len(holdings) = 2
  /\ trades[1].symbol = holdings[2].symbol
  /\ RLt(holdings[2].currentValue, holdings[1].currentValue)

\* C19: on an empty list calculateHoldings returns [], the metrics are all
\* 0 with no performers, and the history is []; a list of sells only yields
\* no holdings.
C19_EmptyInput ==
  /\ (op \in CallOps /\ trades = <<>>) => holdings = <<>>
  /\ (op \in MetricsOps /\ holdings = <<>>) =>
       portfolioMetrics =
         [totalValue |-> Zero, totalCost |-> Zero, totalGainLoss |-> Zero,
          totalGainLossPercent |-> Zero, numUniqueSymbols |-> 0,
          topPerformer |-> "null", worstPerformer |-> "null"]
  /\ (op = "calculatePortfolioHistory" /\ trades = <<>>) => portfolioHistory = <<>>
  /\ (op \in CallOps /\ \A i \in DOMAIN trades : trades[i].shares < 0) =>
       holdings = <<>>

\* the three functions have run on a list of sells only
C19_SellsOnlyWitness ==
  /\ op = "calculatePortfolioHistory"
  /\ Len(trades) = 2
  /\ \A i \in DOMAIN trades : trades[i].shares < 0
  /\ holdings = <<>>

\* C19 witness: the three functions have run on no trades
C19_Witness ==
  /\ op = "calculatePortfolioHistory"
  /\ trades = <<>>
  /\ portfolioHistory = <<>>

\* the indices of the holdings with the greatest and with the least
\* unrealizedGainLossPercent
Best(hs) ==
  {i \in DOMAIN hs : \A j \in DOMAIN hs :
     RLe(hs[j].unrealizedGainLossPercent, hs[i].unrealizedGainLossPercent)}
Worst(hs) ==
  {i \in DOMAIN hs : \A j \in DOMAIN hs :
     RLe(hs[i].unrealizedGainLossPercent, hs[j].unrealizedGainLossPercent)}

\* C16: topPerformer is the holding with the greatest
\* unrealizedGainLossPercent and worstPerformer the one with the least; of
\* holdings tied for the greatest the first in input order is the top, of
\* holdings tied for the least the last in input order is the worst; a single
\* holding is both.
C16_Performers ==
  (op = "calculatePortfolioMetrics" /\ holdings # <<>>) =>
    LET first == CHOOSE i \in Best(holdings) : \A j \in Best(holdings) : i <= j
        last == CHOOSE i \in Worst(holdings) : \A j \in Worst(holdings) : j <= i
    IN  /\ portfolioMetrics.topPerformer =
             [symbol |-> holdings[first].symbol,
              gainLossPercent |-> holdings[first].unrealizedGainLossPercent]
        /\ portfolioMetrics.worstPerformer =
             [symbol |-> holdings[last].symbol,
              gainLossPercent |-> holdings[last].unrealizedGainLossPercent]
        /\ Len(holdings) = 1 =>
             portfolioMetrics.topPerformer = portfolioMetrics.worstPerformer

\* C16 witness: two holdings tied for the least percentage come before the
\* best one, and the later of the two is the worst performer
C16_Witness ==
  /\ op = "calculatePortfolioMetrics"
  /\ Len(holdings) = 3
  /\ Worst(holdings) = {1, 2}
  /\ Best(holdings) = {3}
  /\ portfolioMetrics.worstPerformer.symbol = holdings[2].symbol

\* C20: when the upload result is not valid the whole batch is discarded:
\* trades, holdings, portfolioMetrics and portfolioHistory stay as they were
\* and only error and isLoading are set.
C20_InvalidBatchDiscarded ==
  [][(op' = "handleDataParsed" /\ ~result'.isValid) =>
       /\ UNCHANGED <<trades, holdings, portfolioMetrics, portfolioHistory>>
       /\ error' # <<>>
       /\ isLoading' = FALSE]_vars

\* C20 witness: after an accepted upload, a result with an error and a
\* valid trade has been handled and the earlier portfolio is still shown
C20_Witness ==
  /\ op = "handleDataParsed"
  /\ ~result.isValid
  /\ Len(result.trades) > 0
  /\ trades # <<>>
  /\ trades # result.trades
  /\ holdings # <<>>
  /\ error # <<>>

BuyPrices(trs, symbol) ==
  {trs[i].price : i \in {j \in DOMAIN trs : trs[j].symbol = symbol /\ trs[j].shares > 0}}

\* C28: the avgCostBasis of every holding lies between the lowest and the
\* highest price of the symbol's buy trades, also when a sell precedes the
\* buys or exceeds the shares held at the time.
C28_AverageWithinBuyPrices ==
  op = "calculateHoldings" =>
    \A i \in DOMAIN holdings :
      /\ \E p \in BuyPrices(trades, holdings[i].symbol) : RLe(R(p), holdings[i].avgCostBasis)
      /\ \E p \in BuyPrices(trades, holdings[i].symbol) : RLe(holdings[i].avgCostBasis, R(p))

\* C29: every holding has a strictly positive cost basis, so its percentage
\* is the quotient and not the totalCost = 0 fallback, and each symbol
\* appears at most once in the output.
C29_PositiveCostOncePerSymbol ==
  op = "calculateHoldings" =>
    /\ \A i \in DOMAIN holdings :
         LET h == holdings[i]
             cost == RMul(R(h.sharesHeld), h.avgCostBasis)
         IN  /\ RLt(Zero, h.avgCostBasis)
             /\ RLt(Zero, cost)
             /\ h.unrealizedGainLossPercent =
                  RMul(RDiv(h.unrealizedGainLoss, cost), Hundred)
    /\ \A i \in DOMAIN holdings : \A j \in DOMAIN holdings :
         holdings[i].symbol = holdings[j].symbol => i = j

\* C29 witness: a sell walked before any buy leaves a cost of 0, and the
\* three shares bought afterwards give a holding with a positive cost
C29_Witness ==
  /\ op = "calculateHoldings"
  /\ Len(trades) = 3
  /\ \E i \in DOMAIN trades : trades[i].shares < 0 /\ trades[i].date = 1
  /\ \A i \in DOMAIN trades : trades[i].shares > 0 => trades[i].date = 2
  /\ Len(holdings) = 1
  /\ holdings[1].sharesHeld = 1
  /\ holdings[1].avgCostBasis = R(350)

\* the holding's symbol or sector contains the term, whatever the case
Matches(h, term) ==
  \E str \in {h.symbol, h.sector} :
    \E i \in 1..(Len(Spelling[str]) - Len(term) + 1) :
      \A k \in 1..Len(term) : LowerChar(Spelling[str][i + k - 1]) = LowerChar(term[k])

\* the words of the holdings in alphabetical order
Alphabetical == <<"AAPL", "Other", "Technology", "YYY", "ZZZ">>
Place(str) == CHOOSE i \in DOMAIN Alphabetical : Alphabetical[i] = str

\* a is not after b in the ascending order of the column
NotAfter(a, b, column) ==
  IF column \in {"symbol", "sector"} THEN Place(a[column]) <= Place(b[column])
  ELSE IF column = "sharesHeld" THEN a[column] <= b[column]
  ELSE RLe(a[column], b[column])

\* C24: filterHoldings returns exactly the holdings whose symbol or sector
\* contains the search term case-insensitively (all when the term is empty)
\* and whose sector is the selected one (all when it is empty or 'all'),
\* ordered by the sortBy column in the requested direction.
C24_FilterAndSort ==
  [][op' = "filterHoldings" =>
       LET f == filters'
           wanted == {h \in Range(holdings) :
                        /\ f.searchTerm = <<>> \/ Matches(h, f.searchTerm)
                        /\ f.selectedSector \in {"", "all"} \/ h.sector = f.selectedSector}
       IN  /\ Range(filtered') = wanted
           /\ Len(filtered') = Cardinality(wanted)
           /\ \A i \in DOMAIN filtered' : \A j \in DOMAIN filtered' :
                i < j => IF f.sortDirection = "asc"
                         THEN NotAfter(filtered'[i], filtered'[j], f.sortBy)
                         ELSE NotAfter(filtered'[j], filtered'[i], f.sortBy)]_vars

\* C24 witness: of three holdings the two that have a Y in the symbol or in
\* the sector are returned, by symbol from Z to A
C24_Witness ==
  /\ op = "filterHoldings"
  /\ Len(holdings) = 3
  /\ filters.searchTerm = <<"Y">>
  /\ filters.sortBy = "symbol"
  /\ filters.sortDirection = "desc"
  /\ Len(filtered) = 2
  /\ filtered[1].symbol = "YYY"
  /\ filtered[2].symbol = "AAPL"

\* C30: filterHoldings leaves the holdings array it is given unchanged,
\* also when neither a search term nor a sector filter is active.
C30_HoldingsUnchanged ==
  [][op' = "filterHoldings" => holdings' = holdings]_vars

\* the place in `events` of the last call of the owner's debounced function
\* before place j (0 if there is none)
LastCallBefore(owner, j) ==
  LET cs == {i \in 1..(j - 1) : events[i].kind = "call" /\ events[i].owner = owner}
  IN  IF cs = {} THEN 0 ELSE CHOOSE i \in cs : \A k \in cs : k <= i

\* C22: however often the debounced function is called, at most one timer
\* is pending; func runs only Delay after the last call, once, with that
\* call's arguments, and does run then; debouncedSaveAppState writes to
\* storage exactly if autoSave is true when the timer fires.
C22_Coalescing ==
  /\ \A owner \in {"debounce", "autoSave"} :
       Cardinality({i \in DOMAIN timers : timers[i].owner = owner}) <= 1
  /\ \A j \in DOMAIN events :
       events[j].kind = "run" =>
         LET c == LastCallBefore(events[j].owner, j)
         IN  /\ c > 0
             /\ events[j].args = events[c].args
             /\ events[j].at = events[c].at + Delay
             /\ \A k \in (c + 1)..(j - 1) :
                  ~(events[k].kind = "run" /\ events[k].owner = events[j].owner)
             /\ events[j].wrote = (events[j].owner = "autoSave" /\ events[j].autoSave)
  /\ \A owner \in {"debounce", "autoSave"} :
       LET c == LastCallBefore(owner, Len(events) + 1)
       IN  (c > 0 /\ now > events[c].at + Delay) =>
             \E j \in (c + 1)..Len(events) :
               events[j].kind = "run" /\ events[j].owner = owner
  /\ LET ws == {j \in DOMAIN events : events[j].wrote}
     IN  IF ws = {} THEN storedAppState = <<>>
         ELSE LET j == CHOOSE i \in ws : \A k \in ws : k <= i
              IN  storedAppState = <<StoredState(events[j].args, events[j].at)>>

\* C22 witness: three calls of debouncedSaveAppState, each one time unit
\* after the one before, and one write, of the last call's state
C22_Witness ==
  /\ Len(events) = 4
  /\ \A i \in 1..3 : events[i].kind = "call" /\ events[i].owner = "autoSave"
                       /\ events[i].at = Clock0 + i - 1
  /\ events[1].args # events[3].args
  /\ events[4].kind = "run"
  /\ events[4].wrote
  /\ storedAppState # <<>>
  /\ storedAppState[1].trades = events[3].args.trades

C25_NoWriteAfterClear ==
  [][(isInitialized /\ trades = <<>> /\ storedAppState = <<>> /\ trades' = <<>>)
       => storedAppState' = <<>>]_vars

\* C27: in every state of the initialised app the derived fields agree with
\* the trades.
C27_DerivedAgree ==
  isInitialized =>
    /\ holdings = calculateHoldings(trades)
    /\ portfolioMetrics = calculatePortfolioMetrics(holdings)
    /\ portfolioHistory = calculatePortfolioHistory(trades)

\* C26: filters.currentPage stays within 1..max(1, totalPages) of the
\* currently filtered holdings, so a non-empty filtered list never renders
\* an empty page.
C26_PageWithinBounds ==
  isInitialized =>
    LET shown == filterHoldings(holdings, filters.searchTerm, filters.selectedSector,
                                filters.sortBy, filters.sortDirection)
        totalPages == (Len(shown) + filters.itemsPerPage - 1) \div filters.itemsPerPage
    IN  /\ filters.currentPage >= 1
        /\ filters.currentPage <= (IF totalPages > 1 THEN totalPages ELSE 1)
        /\ shown # <<>> =>
             paginateData(shown, filters.currentPage, filters.itemsPerPage).items # <<>>

====
